---------------------------- MODULE Spec2Model ----------------------------
(***************************************************************************)
(* Voter-guide map: the survey reconciliation pipeline (cleanSurveyFromPapa *)
(* and the ward/mayor aggregation loop) of voter_guide.js and its sibling   *)
(* iterations.                                                              *)
(*                                                                          *)
(* A JavaScript string is a sequence of one-character strings, so that      *)
(* trimming, case folding, the regular expressions and parseInt are         *)
(* computed character by character.  Column and row indices are 0-based,    *)
(* as in the source: cell i of a row arr is arr[i+1].                       *)
(***************************************************************************)
EXTENDS Integers, Sequences, FiniteSets, TLC

(***************************************************************************)
(* String literals of the source.                                          *)
(***************************************************************************)
tYes == <<"y","e","s">>
tNo == <<"n","o">>
tUndecided == <<"u","n","d","e","c","i","d","e","d">>
tAdditionalComments == <<"a","d","d","i","t","i","o","n","a","l"," ","c","o","m","m","e","n","t","s">>
tAdditionalCommentsColon == <<"a","d","d","i","t","i","o","n","a","l"," ","c","o","m","m","e","n","t","s",":">>
tOpenEnded == <<"o","p","e","n","-","e","n","d","e","d"," ","r","e","s","p","o","n","s","e">>
tOpenEndedColon == <<"o","p","e","n","-","e","n","d","e","d"," ","r","e","s","p","o","n","s","e",":">>
tMayor == <<"m","a","y","o","r">>
tFirstName == <<"f","i","r","s","t"," ","n","a","m","e">>
tLastName == <<"l","a","s","t"," ","n","a","m","e">>
tEmailAddress == <<"e","m","a","i","l"," ","a","d","d","r","e","s","s">>
tWard == <<"w","a","r","d">>
reCandidateFor == <<"i","'","m"," ","a"," ","c","a","n","d","i","d","a","t","e"," ","f","o","r",":">>
reCandidateNameAndEmail == <<"c","a","n","d","i","d","a","t","e"," ","n","a","m","e"," ","a","n","d"," ","e","m","a","i","l"," ","a","d","d","r","e","s","s">>
reCandidateName == <<"c","a","n","d","i","d","a","t","e"," ","n","a","m","e">>
reEmail == <<"e","m","a","i","l">>
reUnnamed == <<"u","n","n","a","m","e","d">>
reFirst == <<"f","i","r","s","t">>
reLast == <<"l","a","s","t">>
reName == <<"n","a","m","e">>
reCandidate == <<"c","a","n","d","i","d","a","t","e">>
reAddress == <<"a","d","d","r","e","s","s">>
fWard == <<"_","_","W","a","r","d">>
fFirstName == <<"_","_","F","i","r","s","t","N","a","m","e">>
fLastName == <<"_","_","L","a","s","t","N","a","m","e">>
fNameMixed == <<"_","_","N","a","m","e","M","i","x","e","d">>
fCommentPrefix == <<"_","_","C","O","M","M","E","N","T",":",":">>

(***************************************************************************)
(* Cell texts the bounded inputs are drawn from.                           *)
(***************************************************************************)
sEmpty == <<>>
sSp == <<" ">>
sQ1 == <<"Q","1">>
sQ1Pad == <<" ","Q","1"," ">>
sQ2 == <<"Q","2">>
sUnnamed2 == <<"U","n","n","a","m","e","d",":"," ","2">>
sAnchor == <<"I","'","m"," ","a"," ","c","a","n","d","i","d","a","t","e"," ","f","o","r",":">>
sNameEmail == <<"C","a","n","d","i","d","a","t","e"," ","n","a","m","e"," ","a","n","d"," ","e","m","a","i","l"," ","a","d","d","r","e","s","s">>
sNameEmailAlt == <<"C","a","n","d","i","d","a","t","e"," ","N","a","m","e"," ","/"," ","E","m","a","i","l">>
sX == <<"x">>
sCapYes == <<"Y","e","s">>
sCapNo == <<"N","o">>
sCapUndecided == <<"U","n","d","e","c","i","d","e","d">>
sYES == <<"Y","E","S"," ">>
sMaybe == <<"m","a","y","b","e">>
sComments == <<"A","d","d","i","t","i","o","n","a","l"," ","C","o","m","m","e","n","t","s">>
sMayorCap == <<"M","a","y","o","r">>
sWard07 == <<"W","a","r","d"," ","0","7">>
sWard7 == <<"W","a","r","d"," ","7">>
sWard14 == <<"W","a","r","d"," ","1","4">>
sMayorOf2 == <<"M","a","y","o","r"," ","2">>
sAtLarge == <<"A","t"," ","l","a","r","g","e">>
sFirst == <<"F","i","r","s","t"," ","n","a","m","e">>
sLast == <<"L","a","s","t"," ","N","a","m","e">>
sEmail == <<"E","m","a","i","l"," ","a","d","d","r","e","s","s">>
sWardx == <<"W","a","r","d","s">>
sJane == <<"J","a","n","e">>
s7 == <<"7">>
sYourWard == <<"Y","o","u","r"," ","w","a","r","d">>
s10 == <<"1","0">>
s07 == <<"0","7">>

(***************************************************************************)
(* Character classes and String.prototype methods.                         *)
(***************************************************************************)
UpperChars == <<"A","B","C","D","E","F","G","H","I","J","K","L","M",
                "N","O","P","Q","R","S","T","U","V","W","X","Y","Z">>
LowerChars == <<"a","b","c","d","e","f","g","h","i","j","k","l","m",
                "n","o","p","q","r","s","t","u","v","w","x","y","z">>
DigitChars == <<"0","1","2","3","4","5","6","7","8","9">>

toLowerCaseChar(c) ==
  IF \E i \in 1..26 : UpperChars[i] = c
  THEN LowerChars[CHOOSE i \in 1..26 : UpperChars[i] = c] ELSE c
toUpperCaseChar(c) ==
  IF \E i \in 1..26 : LowerChars[i] = c
  THEN UpperChars[CHOOSE i \in 1..26 : LowerChars[i] = c] ELSE c
IsSpace(c) == c \in {" ", "\t"}
IsDigit(c) == \E i \in 1..10 : DigitChars[i] = c
DigitValue(c) == (CHOOSE i \in 1..10 : DigitChars[i] = c) - 1

\* String.prototype.trim
trim(s) ==
  IF \A i \in 1..Len(s) : IsSpace(s[i]) THEN <<>>
  ELSE LET a == CHOOSE i \in 1..Len(s) :
                  ~IsSpace(s[i]) /\ \A j \in 1..(i-1) : IsSpace(s[j])
           b == CHOOSE i \in 1..Len(s) :
                  ~IsSpace(s[i]) /\ \A j \in (i+1)..Len(s) : IsSpace(s[j])
       IN SubSeq(s, a, b)

\* normalize = v => (v == null ? '' : String(v).trim()); an absent cell is
\* read as the empty sequence (see Cell), which trims to ''.
normalize(v) == trim(v)
\* lc = s => s.toLowerCase()
lc(s) == [i \in 1..Len(s) |-> toLowerCaseChar(s[i])]

\* s.includes(p)
\* p occurs in s at (1-based) position i
MatchAt(s, i, p) ==
  i >= 1 /\ i + Len(p) - 1 <= Len(s) /\ SubSeq(s, i, i + Len(p) - 1) = p
Includes(s, p) == \E i \in 1..(Len(s) - Len(p) + 1) : MatchAt(s, i, p)
StartsWith(s, p) == MatchAt(s, 1, p)

\* arr[i] of a JavaScript array; undefined (index past the end) is read as ''
\* because every use goes through normalize, String(h ?? '') or the test
\* v != null && String(v).trim() !== ''.
Cell(arr, i) == IF i >= 0 /\ i < Len(arr) THEN arr[i + 1] ELSE <<>>

\* Array.prototype.findIndex, given the predicate's value on each element:
\* the first 0-based index whose test is true, else -1
findIndex(tests) ==
  IF \E i \in 1..Len(tests) : tests[i]
  THEN (CHOOSE i \in 1..Len(tests) : tests[i] /\ \A j \in 1..(i-1) : ~tests[j]) - 1
  ELSE -1

(***************************************************************************)
(* The regular expressions of the source, each as the predicate it tests.  *)
(***************************************************************************)
IsWordChar(c) == IsDigit(c) \/ c = "_" \/ toLowerCaseChar(c) # c
                 \/ toUpperCaseChar(c) # c

\* /^ward(\s*\d+)?$/i
reWardChoice(t) ==
  /\ StartsWith(lc(t), tWard)
  /\ LET rest == SubSeq(t, 5, Len(t))
     IN \/ rest = <<>>
        \/ \E k \in 0..(Len(rest) - 1) :
             /\ \A j \in 1..k : IsSpace(rest[j])
             /\ \A j \in (k+1)..Len(rest) : IsDigit(rest[j])
\* /i'm a candidate for:/i
reIdxStart(h) == Includes(lc(h), reCandidateFor)
\* /candidate name and email address/i
reIdxEnd(h) == Includes(lc(h), reCandidateNameAndEmail)
\* /candidate name/i.test(h) && /email/i.test(h)
reIdxEndLoose(h) == Includes(lc(h), reCandidateName) /\ Includes(lc(h), reEmail)
\* /^Unnamed/i
reUnnamedPrefix(h) == StartsWith(lc(h), reUnnamed)
\* /<word>\s*name/i, for word = first, last
reWordThenName(h, word) ==
  LET l == lc(h) n == Len(word)
  IN \E i \in 1..Len(l) :
       /\ MatchAt(l, i, word)
       /\ \E j \in (i + n)..Len(l) :
            /\ \A k \in (i + n)..(j - 1) : IsSpace(l[k])
            /\ MatchAt(l, j, reName)
\* /^\s*name\s*$/i
reNameOnly(h) == lc(trim(h)) = reName
\* /candidate.*name.*email.*address/i
reCandidateNameEmailAddress(h) ==
  LET l == lc(h) n == Len(l)
  IN \E a \in 1..n :
       /\ MatchAt(l, a, reCandidate)
       /\ \E b \in (a + 9)..n :
            /\ MatchAt(l, b, reName)
            /\ \E c \in (b + 4)..n :
                 /\ MatchAt(l, c, reEmail)
                 /\ \E d \in (c + 5)..n : MatchAt(l, d, reAddress)
\* /mayor/i
reMayor(s) == Includes(lc(s), tMayor)
\* /\bward\b/i
reWardWord(s) ==
  LET l == lc(s)
  IN \E i \in 1..(Len(l) - 3) :
       /\ MatchAt(l, i, tWard)
       /\ (i = 1 \/ ~IsWordChar(l[i - 1]))
       /\ (i + 3 = Len(l) \/ ~IsWordChar(l[i + 4]))

\* s.match(/\d+/): the first maximal digit run, or <<>> when there is none
\* (the source tests the match for null before using m[0]).
matchDigits(s) ==
  IF \A i \in 1..Len(s) : ~IsDigit(s[i]) THEN <<>>
  ELSE LET a == CHOOSE i \in 1..Len(s) :
                  IsDigit(s[i]) /\ \A j \in 1..(i-1) : ~IsDigit(s[j])
           b == CHOOSE i \in a..Len(s) :
                  /\ \A j \in a..i : IsDigit(s[j])
                  /\ (i = Len(s) \/ ~IsDigit(s[i + 1]))
       IN SubSeq(s, a, b)

\* parseInt(d, 10) of a digit run
parseInt(d) ==
  LET v[i \in 0..Len(d)] == IF i = 0 THEN 0 ELSE v[i-1] * 10 + DigitValue(d[i])
  IN v[Len(d)]
\* String(n) of a non-negative integer
RECURSIVE String(_)
String(n) ==
  IF n < 10 THEN <<DigitChars[n + 1]>>
  ELSE Append(String(n \div 10), DigitChars[(n % 10) + 1])

(***************************************************************************)
(* JavaScript objects used as maps.  A map {} is a function from keys to   *)
(* values; `groups` also records the insertion order of its keys, because   *)
(* Object.entries / Object.keys enumerate canonical array-index keys first, *)
(* in ascending numeric order, and then the other keys in insertion order.  *)
(***************************************************************************)
EmptyObj == <<>>
Has(obj, k) == k \in DOMAIN obj
Put(obj, k, v) == [x \in (DOMAIN obj) \cup {k} |-> IF x = k THEN v ELSE obj[x]]
\* row[k] where undefined reads as '' (every use is normalize(row[k]) or row[k]||'')
Get(obj, k) == IF k \in DOMAIN obj THEN obj[k] ELSE <<>>

IsArrayIndexKey(k) ==
  /\ Len(k) >= 1 /\ Len(k) <= 9
  /\ \A i \in 1..Len(k) : IsDigit(k[i])
  /\ (Len(k) = 1 \/ k[1] # "0")
OwnKeys(ins) ==
  LET ints == {i \in 1..Len(ins) : IsArrayIndexKey(ins[i])}
      rank(i) == Cardinality({j \in ints : parseInt(ins[j]) < parseInt(ins[i])}) + 1
      sorted == [p \in 1..Cardinality(ints) |-> ins[CHOOSE i \in ints : rank(i) = p]]
  IN sorted \o SelectSeq(ins, LAMBDA k : ~IsArrayIndexKey(k))

(***************************************************************************)
(* State.  `variant` names the iteration of the script that is running:    *)
(* "voter_guide" (src/voter_guide.js), "part_000", "part_001", "part_002"   *)
(* (src/unnamed/part_000 .. part_002).  `data` is papa.data.  The other     *)
(* variables are the locals of cleanSurveyFromPapa that outlive a step,     *)
(* its result `survey`, and the aggregation's byWardAll / mayorAll.         *)
(* rowSrc[i] is the index in data of the grid row that rows[i] was built    *)
(* from (a history variable: the source keeps no such index).              *)
(* byWardAll and mayorAll hold row references: 0-based indices into         *)
(* survey.rows, the objects themselves being shared, not copied.           *)
(*                                                                         *)
(* The page around them: `features` is wardsGeo.features, `error` the       *)
(* rejection of the handler's promise, `map` / polygonLayer / markerGroup   *)
(* the Leaflet objects (null until created), issueSel the option values of  *)
(* the filter control, drawer the built drawer, frames the queue of         *)
(* requestAnimationFrame callbacks, fills the pattern painted on each       *)
(* polygon, tab the detail view opened last.  filter (the arguments of the  *)
(* last applyFilters call), runs (how often the cleaning and the            *)
(* aggregation have completed) and events (user events so far) are history  *)
(* variables.                                                               *)
(***************************************************************************)
VARIABLES variant, data, pc,
          header1IsChoices, wardSlice, groups, choiceIndexByGroup,
          firstIdx, lastIdx, nameMixedCol,
          r, rows, rowSrc,
          survey, ai, byWardAll, mayorAll,
          features, wardCenters, error, map, polygonLayer, markerGroup,
          issueSel, drawer, currentFilteredByWard, filter, frames, fills,
          tab, runs, events, previous, sheet, info

uiVars == <<features, error, map, polygonLayer, markerGroup, issueSel, drawer,
            currentFilteredByWard, filter, frames, fills, tab, events,
            previous, sheet, info>>
vars == <<variant, data, pc, header1IsChoices, wardSlice, groups,
          choiceIndexByGroup, firstIdx, lastIdx, nameMixedCol,
          r, rows, rowSrc, survey, ai, byWardAll, mayorAll,
          wardCenters, runs, uiVars>>

null == [null |-> TRUE]
header0 == data[1]
header1 == data[2]

(***************************************************************************)
(* cleanSurveyFromPapa: header classification.                             *)
(***************************************************************************)
CHOICE_TOKENS ==
  {tYes, tNo, tUndecided, tAdditionalComments, tAdditionalCommentsColon,
   tOpenEnded, tOpenEndedColon, tMayor, tFirstName, tLastName,
   tEmailAddress, tWard}
isChoiceToken(s) ==
  LET t == lc(normalize(s))
  IN t # <<>> /\ (t \in CHOICE_TOKENS \/ reWardChoice(t))
nonEmpty1(h1) == SelectSeq(h1, LAMBDA x : normalize(x) # <<>>)
\* variant: more than half of the cells must be tokens
isChoiceRow_strict(h1) ==
  /\ Len(nonEmpty1(h1)) > 0
  /\ 2 * Len(SelectSeq(nonEmpty1(h1), isChoiceToken)) > Len(nonEmpty1(h1))
\* hits / n >= 0.5 in floating point; for these counts the quotient compares
\* with 0.5 exactly as 2 * hits compares with n.
isChoiceRow(h1) ==
  /\ Len(nonEmpty1(h1)) > 0
  /\ 2 * Len(SelectSeq(nonEmpty1(h1), isChoiceToken)) >= Len(nonEmpty1(h1))

idxStart(h0) == findIndex([i \in 1..Len(h0) |-> reIdxStart(h0[i])])
idxEnd(h0) == findIndex([i \in 1..Len(h0) |-> reIdxEnd(h0[i])])
idxEndFallback(h0) ==
  IF idxEnd(h0) >= 0 THEN idxEnd(h0)
  ELSE findIndex([i \in 1..Len(h0) |-> reIdxEndLoose(h0[i])])
\* The lower bound of the slice is the one place where the iterations differ.
sliceStart(v, i) == IF v = "voter_guide" THEN i ELSE i + 1
computeWardSlice(v, h0) ==
  IF idxStart(h0) >= 0 /\ idxEndFallback(h0) > idxStart(h0)
  THEN [start |-> sliceStart(v, idxStart(h0)), end |-> idxEndFallback(h0)]
  ELSE null

(***************************************************************************)
(* cleanSurveyFromPapa: forward fill and grouping.                         *)
(***************************************************************************)
\* variant: only blank headers inherit, "Unnamed" ones stand alone
ffillHeaders_blankOnly(h0) ==
  LET f[i \in 0..(Len(h0) - 1)] ==
        IF h0[i + 1] # <<>> THEN h0[i + 1]
        ELSE IF i > 0 THEN f[i - 1] ELSE <<>>
  IN [i \in 1..Len(h0) |-> f[i - 1]]
ffillHeaders(h0) ==
  LET f[i \in 0..(Len(h0) - 1)] ==
        IF h0[i + 1] # <<>> /\ ~reUnnamedPrefix(h0[i + 1]) THEN h0[i + 1]
        ELSE IF i > 0 THEN f[i - 1] ELSE <<>>
  IN [i \in 1..Len(h0) |-> f[i - 1]]
\* variant: no column is skipped
skipIdx_none(ws) == {}
skipIdx(ws) == IF ws = null THEN {} ELSE ws.start..(ws.end - 1)

\* ffillHeaders.forEach((h,i)=>{ if(!h||skipIdx.has(i)) return;
\*                               const k=h.trim(); (groups[k]??=[]).push(i); })
RECURSIVE groupsFold(_, _, _, _)
groupsFold(ff, skip, i, g) ==
  IF i >= Len(ff) THEN g
  ELSE IF ff[i + 1] = <<>> \/ i \in skip THEN groupsFold(ff, skip, i + 1, g)
  ELSE LET k == trim(ff[i + 1])
       IN groupsFold(ff, skip, i + 1,
            IF Has(g.idx, k)
            THEN [g EXCEPT !.idx[k] = Append(@, i)]
            ELSE [keys |-> Append(g.keys, k), idx |-> Put(g.idx, k, <<i>>)])
computeGroups(h0, ws) ==
  groupsFold(ffillHeaders(h0), skipIdx(ws), 0, [keys |-> <<>>, idx |-> EmptyObj])
\* Object.entries(groups) / Object.keys(groups): the keys in enumeration order
groupKeys(g) == OwnKeys(g.keys)

labelAt(h1, idx) == lc(normalize(Cell(h1, idx)))
emptyBucket == [yes |-> <<>>, no |-> <<>>, undecided |-> <<>>, comment |-> <<>>]
bucketOf(h1, idxs) ==
  [yes       |-> SelectSeq(idxs, LAMBDA idx : labelAt(h1, idx) = tYes),
   no        |-> SelectSeq(idxs, LAMBDA idx : labelAt(h1, idx) = tNo),
   undecided |-> SelectSeq(idxs, LAMBDA idx : labelAt(h1, idx) = tUndecided),
   comment   |-> SelectSeq(idxs, LAMBDA idx :
                   labelAt(h1, idx) \in {tAdditionalComments, tAdditionalCommentsColon,
                                         tOpenEnded, tOpenEndedColon})]
computeChoiceIndex(choices, h1, g) ==
  IF choices THEN [k \in DOMAIN g.idx |-> bucketOf(h1, g.idx[k])] ELSE EmptyObj
\* commentForIssue[g] = `__COMMENT::${g}`
commentField(g) == fCommentPrefix \o g

(***************************************************************************)
(* cleanSurveyFromPapa: one data row.                                      *)
(***************************************************************************)
\* variant: the last such index
firstNonEmpty_last(arr, idxs) ==
  LET hit == SelectSeq(idxs, LAMBDA i : trim(Cell(arr, i)) # <<>>)
  IN IF hit = <<>> THEN -1 ELSE hit[Len(hit)]
\* the first index of idxs whose cell is non-empty after trimming, else -1
firstNonEmpty(arr, idxs) ==
  LET hit == SelectSeq(idxs, LAMBDA i : trim(Cell(arr, i)) # <<>>)
  IN IF hit = <<>> THEN -1 ELSE hit[1]
\* label[0].toUpperCase()+label.slice(1)
capitalize(label) == <<toUpperCaseChar(label[1])>> \o Tail(label)
\* variant: the leftmost filled choice column decides, whatever its label
resolveAnswer_leftmost(arr, bucket) ==
  LET first(idxs) == IF firstNonEmpty(arr, idxs) >= 0
                     THEN firstNonEmpty(arr, idxs) ELSE 1000000
      y == first(bucket.yes) n == first(bucket.no) u == first(bucket.undecided)
  IN IF y < n /\ y < u THEN capitalize(tYes)
     ELSE IF n < y /\ n < u THEN capitalize(tNo)
     ELSE IF u < y /\ u < n THEN capitalize(tUndecided)
     ELSE <<>>
resolveAnswer(arr, bucket) ==
  IF firstNonEmpty(arr, bucket.yes) >= 0 THEN capitalize(tYes)
  ELSE IF firstNonEmpty(arr, bucket.no) >= 0 THEN capitalize(tNo)
  ELSE IF firstNonEmpty(arr, bucket.undecided) >= 0 THEN capitalize(tUndecided)
  ELSE <<>>
\* variant: the cell as it is, white space included
resolveText_untrimmed(arr, idxs) ==
  IF firstNonEmpty(arr, idxs) >= 0 THEN Cell(arr, firstNonEmpty(arr, idxs))
  ELSE <<>>
\* comm=String(v).trim() / chosen=String(v).trim() of the first non-empty cell
resolveText(arr, idxs) ==
  IF firstNonEmpty(arr, idxs) >= 0 THEN trim(Cell(arr, firstNonEmpty(arr, idxs)))
  ELSE <<>>

\* part_002 has no choice buckets, no comment fields and no locked name
\* columns: every group resolves to its first non-empty cell.
resolvesChoices(v) == v # "part_002"
RECURSIVE groupFields(_, _, _)
groupFields(arr, keys, obj) ==
  IF keys = <<>> THEN obj
  ELSE LET g == Head(keys)
           bucket == IF Has(choiceIndexByGroup, g) THEN choiceIndexByGroup[g]
                     ELSE emptyBucket
       IN groupFields(arr, Tail(keys),
            IF header1IsChoices /\ resolvesChoices(variant)
            THEN Put(Put(obj, g, resolveAnswer(arr, bucket)),
                     commentField(g), resolveText(arr, bucket.comment))
            ELSE Put(obj, g, resolveText(arr, groups.idx[g])))

\* variant: the marked cell's own text is the ward
resolveWard_rawCell(arr) ==
  LET hits == {c \in wardSlice.start..(wardSlice.end - 1) :
                 normalize(Cell(arr, c)) # <<>>}
  IN IF hits = {} THEN <<>>
     ELSE normalize(Cell(arr, CHOOSE x \in hits : \A y \in hits : x <= y))
\* lines 124-131: the label of the first slice column with a non-empty cell
resolveWard(arr) ==
  LET hits == {c \in wardSlice.start..(wardSlice.end - 1) :
                 normalize(Cell(arr, c)) # <<>>}
  IN IF hits = {} THEN <<>>
     ELSE LET c == CHOOSE x \in hits : \A y \in hits : x <= y
          IN IF header1IsChoices /\ Cell(header1, c) # <<>>
             THEN normalize(Cell(header1, c))
             ELSE IF normalize(Cell(header0, c)) # <<>>
                  THEN normalize(Cell(header0, c))
                  ELSE normalize(Cell(arr, c))

rowObject(arr) ==
  LET o1 == groupFields(arr, groupKeys(groups), EmptyObj)
      o2 == IF wardSlice # null THEN Put(o1, fWard, resolveWard(arr)) ELSE o1
      o3 == IF firstIdx >= 0
            THEN Put(o2, fFirstName, normalize(Cell(arr, firstIdx))) ELSE o2
      o4 == IF lastIdx >= 0
            THEN Put(o3, fLastName, normalize(Cell(arr, lastIdx))) ELSE o3
  IN IF nameMixedCol >= 0
     THEN Put(o4, fNameMixed, normalize(Cell(arr, nameMixedCol))) ELSE o4
\* variant: only group fields count, not ward or name fields
admitRow_answersOnly(obj) ==
  \E k \in DOMAIN obj :
     k \notin {fWard, fFirstName, fLastName, fNameMixed} /\ normalize(obj[k]) # <<>>
\* Object.values(obj).some(v=>normalize(v)!=='')
admitRow(obj) == \E k \in DOMAIN obj : normalize(obj[k]) # <<>>

(***************************************************************************)
(* cleanSurveyFromPapa: issue columns and the result.                      *)
(***************************************************************************)
ynu == {tYes, tNo, tUndecided}
nonEmptyCount(rs, c) ==
  Cardinality({i \in 1..Len(rs) : normalize(Get(rs[i], c)) # <<>>})
ynuCountOf(rs, c) ==
  Cardinality({i \in 1..Len(rs) : lc(normalize(Get(rs[i], c))) \in ynu})
\* variant: the share must exceed 0.7
isIssueColumn_strict(rs, c) ==
  nonEmptyCount(rs, c) > 0 /\ 10 * ynuCountOf(rs, c) > 7 * nonEmptyCount(rs, c)
\* ynuCount / nonEmpty >= 0.7 in floating point; the quotient of these counts
\* compares with the double 0.7 exactly as 10 * ynuCount compares with
\* 7 * nonEmpty.
isIssueColumn(rs, c) ==
  nonEmptyCount(rs, c) > 0 /\ 10 * ynuCountOf(rs, c) >= 7 * nonEmptyCount(rs, c)
colsOf(g) == [i \in 1..Len(groupKeys(g)) |-> trim(groupKeys(g)[i])]
\* variant: every group is an issue column
computeIssueColumns_all(cs, rs) == cs
\* lines 142-147: the groups that pass the test, in the order of cols
computeIssueColumns(cs, rs) == SelectSeq(cs, LAMBDA c : isIssueColumn(rs, c))
\* wardSlice?'__Ward':(cols.find(c=>/\bward\b/i.test(c))||null); null is <<>>,
\* a value find(...)||null never yields as a string
computeWardColumn(ws, cs) ==
  IF ws # null THEN fWard
  ELSE IF findIndex([i \in 1..Len(cs) |-> reWardWord(cs[i])]) >= 0
       THEN cs[findIndex([i \in 1..Len(cs) |-> reWardWord(cs[i])]) + 1]
  ELSE <<>>
\* variant: the short-grid result still names a question
emptySurvey_oneIssue ==
  [rows |-> <<>>, issueColumns |-> <<sQ1>>, wardColumn |-> <<>>, cols |-> <<sQ1>>,
   commentForIssue |-> EmptyObj, firstIdx |-> -1, lastIdx |-> -1,
   nameMixedCol |-> -1]
\* line 50: the result for a grid with fewer than two rows
emptySurvey ==
  [rows |-> <<>>, issueColumns |-> <<>>, wardColumn |-> <<>>, cols |-> <<>>,
   commentForIssue |-> EmptyObj, firstIdx |-> -1, lastIdx |-> -1,
   nameMixedCol |-> -1]

(***************************************************************************)
(* Ward / mayor aggregation.                                               *)
(***************************************************************************)
\* variant: the digit run as written, leading zeros kept
wardKey_rawDigits(rawWard) == matchDigits(rawWard)
\* m ? String(parseInt(m[0],10)) : ''
wardKey(rawWard) ==
  IF matchDigits(rawWard) = <<>> THEN <<>>
  ELSE String(parseInt(matchDigits(rawWard)))
\* part_001 and part_002 have no mayoral list: their loops only extract the
\* digit run.
hasMayorList(v) == v \in {"voter_guide", "part_000"}
emptyMap == [keys |-> <<>>, list |-> EmptyObj]
\* if(!m.has(k)) m.set(k,[]); m.get(k).push(ref)
mapPush(m, k, ref) ==
  IF Has(m.list, k) THEN [m EXCEPT !.list[k] = Append(@, ref)]
  ELSE [keys |-> Append(m.keys, k), list |-> Put(m.list, k, <<ref>>)]
\* String(row['__Ward']||''); part_002 reads the column the survey names:
\* survey.wardColumn ? row[survey.wardColumn] : ''
rawWardOf(v, row) ==
  IF v # "part_002" THEN Get(row, fWard)
  ELSE IF survey.wardColumn # <<>> THEN Get(row, survey.wardColumn) ELSE <<>>
\* one iteration of `for(const row of survey.rows)`; ref is the row's index
aggregateRow(v, row, ref, agg) ==
  LET rawWard == rawWardOf(v, row)
  IN IF hasMayorList(v) /\ reMayor(rawWard)
     THEN [agg EXCEPT !.mayorAll = Append(@, ref)]
     ELSE IF wardKey(rawWard) = <<>> THEN agg
     ELSE [agg EXCEPT !.byWardAll = mapPush(@, wardKey(rawWard), ref)]

(***************************************************************************)
(* Ward geometry.  A GeoJSON property is a string or a number; a number is  *)
(* kept as its decimal text with the mark `num`.  A missing property reads  *)
(* as undefined, which every use treats as '' (p.x||'' and normalize).      *)
(***************************************************************************)
Str(s) == [num |-> FALSE, s |-> s]
Num(n) == [num |-> TRUE, s |-> String(n)]
undefined == Str(<<>>)
sNaN == <<"N","a","N">>
\* the value is truthy: not '', not 0, not undefined
truthy(v) == IF v.num THEN v.s # <<"0">> ELSE v.s # <<>>
\* String(parseInt(s,10)): leading white space and a sign are skipped, the
\* digit prefix is read, and NaN results when there is none
strParseInt(s) ==
  LET t == trim(s)
      neg == t # <<>> /\ t[1] = "-"
      u == IF t # <<>> /\ t[1] \in {"-", "+"} THEN Tail(t) ELSE t
  IN IF u = <<>> \/ ~IsDigit(u[1]) THEN sNaN
     ELSE IF neg /\ parseInt(matchDigits(u)) # 0
          THEN <<"-">> \o String(parseInt(matchDigits(u)))
          ELSE String(parseInt(matchDigits(u)))
\* p.label||p.WARD||p.Ward||p.name||p.id||''
firstTruthy(p) ==
  IF truthy(p.label) THEN p.label
  ELSE IF truthy(p.WARD) THEN p.WARD
  ELSE IF truthy(p.Ward) THEN p.Ward
  ELSE IF truthy(p.name) THEN p.name
  ELSE IF truthy(p.id) THEN p.id
  ELSE undefined
\* lines 180-181: the key of a ward center
centerKey(p) ==
  IF truthy(p.ward_num) THEN strParseInt(p.ward_num.s)
  ELSE matchDigits(firstTruthy(p).s)
\* lines 260-264
wardKeyFromFeature(feature) ==
  IF truthy(feature.properties.ward_num)
  THEN strParseInt(feature.properties.ward_num.s)
  ELSE matchDigits(firstTruthy(feature.properties).s)
sWardSp == <<"W","a","r","d"," ">>
sUnknownWard == <<"(","u","n","k","n","o","w","n"," ","w","a","r","d",")">>
\* normalize(p.label)||(key?`Ward ${key}`:'(unknown ward)')
centerName(p, key) ==
  IF normalize(p.label.s) # <<>> THEN normalize(p.label.s)
  ELSE IF key # <<>> THEN sWardSp \o key ELSE sUnknownWard

\* A coordinate pair is known by the step that assigned it and by whether
\* both numbers are finite; let lat=0,lng=0 is the pair (0, 0).
origin == [by |-> "let", finite |-> TRUE]
\* One centroid method: the call throws before anything is assigned
\* ("throws"), or lng and lat are assigned and are finite or not.
assignCenter(at, by, outcome) ==
  IF outcome = "throws" THEN at ELSE [by |-> by, finite |-> (outcome = "finite")]
\* lines 183-186: centerOfMass, then centroid, then the bounds' center, each
\* tried when the one before threw or gave a non-finite pair
centerOf(f) ==
  LET a1 == assignCenter(origin, "centerOfMass", f.centerOfMass)
      a2 == assignCenter(a1, "centroid", f.centroid)
      a3 == assignCenter(a2, "bounds", f.bounds)
  IN IF f.centerOfMass = "finite" THEN a1
     ELSE IF f.centroid = "finite" THEN a2
     ELSE a3
\* lines 178-187: one iteration of the loop over wardsGeo.features
wardCenter(f) ==
  [key |-> centerKey(f.properties),
   name |-> centerName(f.properties, centerKey(f.properties)),
   at |-> centerOf(f)]

(***************************************************************************)
(* buildName.                                                              *)
(***************************************************************************)
sNamePlaceholder == <<"(","n","a","m","e",")">>
\* s.replace(/\s+/g,' ')
RECURSIVE collapseSpaces(_)
collapseSpaces(s) ==
  IF s = <<>> THEN <<>>
  ELSE IF ~IsSpace(s[1]) THEN <<s[1]>> \o collapseSpaces(Tail(s))
  ELSE IF Len(s) >= 2 /\ IsSpace(s[2]) THEN collapseSpaces(Tail(s))
  ELSE <<" ">> \o collapseSpaces(Tail(s))
\* s.replace(/\s*<[^>]*>/g,''): scanning from the left, white space followed
\* by "<" and everything up to the next ">" is dropped
RECURSIVE stripTags(_)
stripTags(s) ==
  IF s = <<>> THEN <<>>
  ELSE LET k == Cardinality({i \in 1..Len(s) : \A j \in 1..i : IsSpace(s[j])})
           closes == {b \in (k + 2)..Len(s) : s[b] = ">"}
       IN IF k < Len(s) /\ s[k + 1] = "<" /\ closes # {}
          THEN stripTags(SubSeq(s, (CHOOSE b \in closes : \A c \in closes : b <= c) + 1,
                                Len(s)))
          ELSE <<s[1]>> \o stripTags(Tail(s))
\* \b between s[i] and s[i+1] (i = 0 is the start, i = Len(s) the end)
wordBoundary(s, i) ==
  (i >= 1 /\ IsWordChar(s[i])) # (i < Len(s) /\ IsWordChar(s[i + 1]))
\* the end of the match of /\b\S+@\S+\b/ (voter_guide.js, part_000) or of
\* /\b\S+@\S+\.\S+\b/ (part_001) that starts at i, or 0 when there is none:
\* every \S+ is greedy, so the match runs to the last word boundary of the
\* run of non-space characters that still leaves room for the rest
emailMatchEnd(v, s, i) ==
  LET run == {e \in i..Len(s) : \A j \in i..e : ~IsSpace(s[j])}
      fits(e) ==
        /\ wordBoundary(s, e)
        /\ \E a \in (i + 1)..(e - 1) :
             /\ s[a] = "@"
             /\ v = "part_001" => \E d \in (a + 2)..(e - 1) : s[d] = "."
      ends == {e \in run : fits(e)}
  IN IF wordBoundary(s, i - 1) /\ ends # {}
     THEN CHOOSE e \in ends : \A x \in ends : x <= e
     ELSE 0
\* s.replace(<the e-mail pattern>/g,''), from position i on
RECURSIVE removeEmails(_, _, _)
removeEmails(v, s, i) ==
  IF i > Len(s) THEN <<>>
  ELSE IF emailMatchEnd(v, s, i) > 0 THEN removeEmails(v, s, emailMatchEnd(v, s, i) + 1)
  ELSE <<s[i]>> \o removeEmails(v, s, i + 1)
\* variant: the cleaned mixed name is returned even when nothing is left
buildName_noPlaceholder(v, row) ==
  LET fn == normalize(Get(row, fFirstName))
      ln == normalize(Get(row, fLastName))
      combo == trim(collapseSpaces(fn \o <<" ">> \o ln))
      mix == normalize(Get(row, fNameMixed))
  IN IF combo # <<>> THEN combo
     ELSE trim(collapseSpaces(removeEmails(v, stripTags(mix), 1)))
\* function buildName(row)
buildName(v, row) ==
  LET fn == normalize(Get(row, fFirstName))
      ln == normalize(Get(row, fLastName))
      combo == trim(collapseSpaces(fn \o <<" ">> \o ln))
      mix == normalize(Get(row, fNameMixed))
      cleaned == trim(collapseSpaces(removeEmails(v, stripTags(mix), 1)))
  IN IF combo # <<>> THEN combo
     ELSE IF mix # <<>> /\ cleaned # <<>> THEN cleaned
     ELSE sNamePlaceholder

(***************************************************************************)
(* Steps.                                                                  *)
(***************************************************************************)
cleanVars == <<header1IsChoices, wardSlice, groups, choiceIndexByGroup,
               firstIdx, lastIdx, nameMixedCol>>

\* lines 49-51: a grid with fewer than two rows
CleanShort ==
  /\ pc = "clean" /\ Len(data) < 2
  /\ survey' = emptySurvey
  /\ ai' = 0
  /\ runs' = [runs EXCEPT !.clean = @ + 1]
  /\ pc' = "centers"
  /\ UNCHANGED <<variant, data, cleanVars, r, rows, rowSrc, byWardAll,
                 mayorAll, wardCenters, uiVars>>

\* variant: the second row is never data
dataStart_two(choices) == 2
\* const dataStart=header1IsChoices?2:1
dataStart(choices) == IF choices THEN 2 ELSE 1

\* lines 52-99: classification, ward slice, grouping, name columns, buckets
CleanHeaders ==
  /\ pc = "clean" /\ Len(data) >= 2
  /\ header1IsChoices' = isChoiceRow(header1)
  /\ wardSlice' = computeWardSlice(variant, header0)
  /\ groups' = computeGroups(header0, wardSlice')
  /\ firstIdx' = IF resolvesChoices(variant)
                 THEN findIndex([i \in 1..Len(header1) |->
                                  reWordThenName(header1[i], reFirst)])
                 ELSE -1
  /\ lastIdx' = IF resolvesChoices(variant)
                THEN findIndex([i \in 1..Len(header1) |->
                                 reWordThenName(header1[i], reLast)])
                ELSE -1
  /\ nameMixedCol' = IF resolvesChoices(variant)
                     THEN findIndex([i \in 1..Len(header0) |->
                                      reNameOnly(header0[i])
                                      \/ reCandidateNameEmailAddress(header0[i])])
                     ELSE -1
  /\ choiceIndexByGroup' =
       computeChoiceIndex(header1IsChoices' /\ resolvesChoices(variant),
                          header1, groups')
  /\ r' = dataStart(header1IsChoices')
  /\ rows' = <<>>
  /\ rowSrc' = <<>>
  /\ pc' = "rows"
  /\ UNCHANGED <<variant, data, survey, ai, byWardAll, mayorAll, wardCenters,
                 runs, uiVars>>

\* lines 101-137: one iteration of the loop over the data rows
CleanRow ==
  /\ pc = "rows" /\ r < Len(data)
  /\ rows' = IF admitRow(rowObject(data[r + 1]))
             THEN Append(rows, rowObject(data[r + 1])) ELSE rows
  /\ rowSrc' = IF admitRow(rowObject(data[r + 1])) THEN Append(rowSrc, r) ELSE rowSrc
  /\ r' = r + 1
  /\ UNCHANGED <<variant, data, pc, cleanVars, survey, ai, byWardAll,
                 mayorAll, wardCenters, runs, uiVars>>

\* lines 139-151: cols, issueColumns, wardColumn, the returned object
CleanReturn ==
  /\ pc = "rows" /\ r >= Len(data)
  /\ survey' = [rows |-> rows,
                issueColumns |-> computeIssueColumns(colsOf(groups), rows),
                wardColumn |-> computeWardColumn(wardSlice, colsOf(groups)),
                cols |-> colsOf(groups),
                commentForIssue |->
                  IF header1IsChoices /\ resolvesChoices(variant)
                  THEN [g \in DOMAIN groups.idx |-> commentField(g)] ELSE EmptyObj,
                firstIdx |-> firstIdx, lastIdx |-> lastIdx,
                nameMixedCol |-> nameMixedCol]
  /\ ai' = 0
  /\ runs' = [runs EXCEPT !.clean = @ + 1]
  /\ pc' = "centers"
  /\ UNCHANGED <<variant, data, cleanVars, r, rows, rowSrc, byWardAll,
                 mayorAll, wardCenters, uiVars>>

\* lines 177-188: the loop over wardsGeo.features
WardCenters ==
  /\ pc = "centers"
  /\ wardCenters' = [i \in 1..Len(features) |-> wardCenter(features[i])]
  /\ pc' = "aggregate"
  /\ UNCHANGED <<variant, data, cleanVars, r, rows, rowSrc, survey, ai,
                 byWardAll, mayorAll, runs, uiVars>>

\* lines 191-199: one iteration of the aggregation loop
AggregateRow ==
  /\ pc = "aggregate" /\ ai < Len(survey.rows)
  /\ byWardAll' = aggregateRow(variant, survey.rows[ai + 1], ai,
                     [byWardAll |-> byWardAll, mayorAll |-> mayorAll]).byWardAll
  /\ mayorAll' = aggregateRow(variant, survey.rows[ai + 1], ai,
                     [byWardAll |-> byWardAll, mayorAll |-> mayorAll]).mayorAll
  /\ ai' = ai + 1
  /\ UNCHANGED <<variant, data, pc, cleanVars, r, rows, rowSrc, survey,
                 wardCenters, runs, uiVars>>

AggregateDone ==
  /\ pc = "aggregate" /\ ai >= Len(survey.rows)
  /\ runs' = [runs EXCEPT !.aggregate = @ + 1]
  /\ pc' = "ready"
  /\ UNCHANGED <<variant, data, cleanVars, r, rows, rowSrc, survey, ai,
                 byWardAll, mayorAll, wardCenters, uiVars>>

(***************************************************************************)
(* The page: start-up around the survey pipeline, filtering, detail views.  *)
(***************************************************************************)
MaxEvents == 2
HttpStatuses == {200, 404}
WARDS_PATH == <<"w","a","r","d","s",".","g","e","o","j","s","o","n">>
SURVEY_PATH == <<"s","u","r","v","e","y",".","c","s","v">>
\* Response.ok
ok(status) == status >= 200 /\ status <= 299
\* new Error(`${path}: ${r.status}`)
fetchError(path, status) == [path |-> path, status |-> status]

\* function ynuNormalize(s)
ynuNormalize(s) == IF lc(normalize(s)) \in ynu THEN lc(normalize(s)) ELSE <<>>
\* variant: without a wanted value any non-empty answer counts
keepsRow_anyText(ref, issue, wantValue) ==
  IF wantValue = <<>> THEN normalize(Get(survey.rows[ref + 1], issue)) # <<>>
  ELSE ynuNormalize(Get(survey.rows[ref + 1], issue)) = lc(wantValue)
\* the filter callback of lines 272-276 and 282-285, on the row with index ref
keepsRow(ref, issue, wantValue) ==
  IF wantValue = <<>> THEN ynuNormalize(Get(survey.rows[ref + 1], issue)) # <<>>
  ELSE ynuNormalize(Get(survey.rows[ref + 1], issue)) = lc(wantValue)
\* issue ? list.filter(...) : list
filterList(list, issue, wantValue) ==
  IF issue = <<>> THEN list
  ELSE SelectSeq(list, LAMBDA ref : keepsRow(ref, issue, wantValue))
\* lines 268-279: byWard
filterMap(m, issue, wantValue) ==
  [keys |-> m.keys,
   list |-> [k \in DOMAIN m.list |-> filterList(m.list[k], issue, wantValue)]]
\* byWard.get(key)||[]
mapGet(m, k) == IF Has(m.list, k) THEN m.list[k] ELSE <<>>

\* list.map(r=>{ const name=buildName(r); ... }): the names a popup shows
popupItems(list) ==
  [j \in 1..Len(list) |-> buildName(variant, survey.rows[list[j] + 1])]


sMayorKey == <<"m","a","y","o","r">>
sMayoralCandidates ==
  <<"M","a","y","o","r","a","l"," ","C","a","n","d","i","d","a","t","e","s">>
CITY_HALL == [by |-> "CITY_HALL", finite |-> TRUE]
\* lines 312-325: one marker per ward center with finite coordinates; its
\* popup lists the rows of byWard for the center's key
wardMarkers(byWard) ==
  LET placed == SelectSeq(wardCenters, LAMBDA wc : wc.at.finite)
  IN [i \in 1..Len(placed) |->
        [key |-> placed[i].key, name |-> placed[i].name, at |-> placed[i].at,
         list |-> mapGet(byWard, placed[i].key),
         items |-> popupItems(mapGet(byWard, placed[i].key))]]
\* lines 327-337: the City Hall marker; its popup lists mayorFiltered
mayorMarker(mayorFiltered) ==
  [key |-> sMayorKey, name |-> sMayoralCandidates, at |-> CITY_HALL,
   list |-> mayorFiltered, items |-> popupItems(mayorFiltered)]

\* a polygon as L.geoJSON styles it, before any pattern is set
plain == [painted |-> FALSE, yes |-> 0, no |-> 0, undecided |-> 0]
\* lines 292-306: the stripe segments of one polygon, from the issue and the
\* filtered map the callback captured; all zero is the single no-data segment
stripe(feature, issue, byWard) ==
  LET list == mapGet(byWard, wardKeyFromFeature(feature))
      count(a) == IF issue = <<>> THEN 0
                  ELSE Cardinality({i \in 1..Len(list) :
                         ynuNormalize(Get(survey.rows[list[i] + 1], issue)) = a})
  IN [painted |-> TRUE, yes |-> count(tYes), no |-> count(tNo),
      undecided |-> count(tUndecided)]

\* part_000 adds an Info control to the map and fills it from applyFilters;
\* in voter_guide.js the call is commented out (line 339)
hasInfoBox(v) == v = "part_000"
RECURSIVE sumLen(_, _)
sumLen(m, ks) == IF ks = <<>> THEN 0 ELSE Len(m.list[Head(ks)]) + sumLen(m, Tail(ks))
\* function updateInfo(byWard, issue, want, mayorCount)
updateInfo(byWard, issue, want, mayorCount) ==
  [total |-> sumLen(byWard, byWard.keys), mayorCount |-> mayorCount,
   issue |-> issue, want |-> want]
\* variant: the markers of earlier calls are not cleared
applyFilters_accumulate(issue, wantValue) ==
  /\ frames' = Append(frames,
                 [issue |-> issue, byWard |-> filterMap(byWardAll, issue, wantValue)])
  /\ markerGroup' =
       [layers |-> markerGroup.layers
                   \o Append(wardMarkers(filterMap(byWardAll, issue, wantValue)),
                             mayorMarker(filterList(mayorAll, issue, wantValue)))]
  /\ currentFilteredByWard' = filterMap(byWardAll, issue, wantValue)
  /\ filter' = [issue |-> issue, wantValue |-> wantValue]
  /\ info' = IF hasInfoBox(variant)
             THEN updateInfo(filterMap(byWardAll, issue, wantValue), issue, wantValue,
                             Len(filterList(mayorAll, issue, wantValue)))
             ELSE info
\* function applyFilters(issue, wantValue), lines 267-341
applyFilters(issue, wantValue) ==
  /\ frames' = Append(frames,
                 [issue |-> issue, byWard |-> filterMap(byWardAll, issue, wantValue)])
  /\ markerGroup' =
       [layers |-> Append(wardMarkers(filterMap(byWardAll, issue, wantValue)),
                          mayorMarker(filterList(mayorAll, issue, wantValue)))]
  /\ currentFilteredByWard' = filterMap(byWardAll, issue, wantValue)
  /\ filter' = [issue |-> issue, wantValue |-> wantValue]
  /\ info' = IF hasInfoBox(variant)
             THEN updateInfo(filterMap(byWardAll, issue, wantValue), issue, wantValue,
                             Len(filterList(mayorAll, issue, wantValue)))
             ELSE info

pipelineVars == <<variant, data, cleanVars, r, rows, rowSrc, survey, ai,
                  byWardAll, mayorAll, wardCenters, runs>>

\* lines 155-161: the map element is looked up; without it the handler
\* returns, with it the map, the tile layer and the two empty layers are made
CreateMap ==
  /\ pc = "start"
  /\ \E mapEl \in BOOLEAN :
       IF mapEl
       THEN /\ map' = [tiles |-> TRUE]
            /\ polygonLayer' = [data |-> <<>>]
            /\ markerGroup' = [layers |-> <<>>]
            /\ pc' = "loadWards"
       ELSE /\ pc' = "returned"
            /\ UNCHANGED <<map, polygonLayer, markerGroup>>
  /\ UNCHANGED <<pipelineVars, features, previous, sheet, info, error,
                 issueSel, drawer, currentFilteredByWard, filter, frames,
                 fills, tab, events>>

\* lines 163-165: loadJSON(WARDS_PATH), then the polygons are added
LoadWards ==
  /\ pc = "loadWards"
  /\ \E status \in HttpStatuses :
       IF ok(status)
       THEN /\ polygonLayer' = [data |-> [i \in 1..Len(features) |-> i]]
            /\ fills' = [i \in 1..Len(features) |-> plain]
            /\ pc' = "loadSurvey"
            /\ error' = error
       ELSE /\ error' = fetchError(WARDS_PATH, status)
            /\ pc' = "failed"
            /\ UNCHANGED <<polygonLayer, fills>>
  /\ UNCHANGED <<pipelineVars, features, previous, sheet, info, map,
                 markerGroup, issueSel, drawer, currentFilteredByWard,
                 filter, frames, tab, events>>

\* line 167: loadCSV(SURVEY_PATH); the parsed grid goes to cleanSurveyFromPapa
LoadSurvey ==
  /\ pc = "loadSurvey"
  /\ \E status \in HttpStatuses :
       IF ok(status)
       THEN pc' = "clean" /\ error' = error
       ELSE pc' = "failed" /\ error' = fetchError(SURVEY_PATH, status)
  /\ UNCHANGED <<pipelineVars, features, previous, sheet, info, map,
                 polygonLayer, markerGroup, issueSel, drawer,
                 currentFilteredByWard, filter, frames, fills, tab, events>>

\* lines 205-239: the filter control with one option per issue column after
\* the placeholder, and the first applyFilters('', '')
injectControlUI ==
  /\ pc = "ready"
  /\ issueSel' = [options |-> <<sEmpty>> \o survey.issueColumns]
  /\ applyFilters(<<>>, <<>>)
  /\ pc' = "drawer"
  /\ UNCHANGED <<pipelineVars, features, previous, sheet, error, map,
                 polygonLayer, drawer, fills, tab, events>>

\* part_000 shows the responses of a ward in a drawer fixed to the body (a
\* bottom sheet under MOBILE_BREAKPOINT), voter_guide.js in a new tab
hasSheet(v) == v = "part_000"
\* part_000 lines 484-500: overlay and drawer as created, before setDrawerSize;
\* pending counts the queued slide-in callbacks, last is the last call made,
\* key is currentWardKey (null, like '', is no ward: <<>>)
newSheet ==
  [overlay |-> FALSE, locked |-> FALSE, mobile |-> FALSE, layout |-> "none",
   axis |-> "none", slid |-> FALSE, pending |-> 0, key |-> <<>>, rendered |-> <<>>,
   last |-> "none"]
\* part_000 lines 503-531, function setDrawerSize(), with isMobile() = mobile:
\* the layout of the mode, and the transform that hides the drawer
setDrawerSize(sh, mobile) ==
  [sh EXCEPT !.mobile = mobile,
             !.layout = IF mobile THEN "bottom" ELSE "side",
             !.axis = IF mobile THEN "Y" ELSE "X",
             !.slid = FALSE]
\* lines 366-445 and 702-703 (part_000 482-594): the drawer; the handler ends
buildDrawerUI ==
  /\ pc = "drawer"
  /\ drawer' = [options |-> <<sEmpty>> \o survey.issueColumns]
  /\ \E mobile \in BOOLEAN :
       sheet' = IF hasSheet(variant) THEN setDrawerSize(newSheet, mobile) ELSE sheet
  /\ pc' = "idle"
  /\ UNCHANGED <<pipelineVars, features, previous, info, error, map,
                 polygonLayer, markerGroup, issueSel, currentFilteredByWard,
                 filter, frames, fills, tab, events>>

\* variant: a change of the filter runs the survey pipeline again
ChangeFilter_reload ==
  /\ pc = "idle" /\ events < MaxEvents
  /\ pc' = "clean"
  /\ events' = events + 1
  /\ UNCHANGED <<variant, data, cleanVars, r, rows, rowSrc, survey, ai,
                 byWardAll, mayorAll, wardCenters, runs, features, previous,
                 sheet, info, error, map, polygonLayer, markerGroup,
                 issueSel, drawer, currentFilteredByWard, filter, frames,
                 fills, tab>>
\* lines 235-236: a change of either select of the filter control
ChangeFilter ==
  /\ pc = "idle" /\ events < MaxEvents
  /\ \E i \in 1..Len(issueSel.options) :
       \E wantValue \in {sEmpty, sCapYes, sCapNo, sCapUndecided} :
          applyFilters(issueSel.options[i], wantValue)
  /\ events' = events + 1
  /\ UNCHANGED <<pipelineVars, pc, features, previous, sheet, error, map,
                 polygonLayer, issueSel, drawer, fills, tab>>

\* variant: the callback queued last runs first
RunFrame_newestFirst ==
  /\ pc = "idle" /\ frames # <<>>
  /\ fills' = [i \in 1..Len(polygonLayer.data) |->
                 stripe(features[polygonLayer.data[i]], frames[Len(frames)].issue,
                        frames[Len(frames)].byWard)]
  /\ frames' = SubSeq(frames, 1, Len(frames) - 1)
  /\ UNCHANGED <<pipelineVars, pc, features, previous, sheet, info, error,
                 map, polygonLayer, markerGroup, issueSel, drawer,
                 currentFilteredByWard, filter, tab, events>>
\* lines 290-308: the oldest requestAnimationFrame callback runs
RunFrame ==
  /\ pc = "idle" /\ frames # <<>>
  /\ fills' = [i \in 1..Len(polygonLayer.data) |->
                 stripe(features[polygonLayer.data[i]], Head(frames).issue,
                        Head(frames).byWard)]
  /\ frames' = Tail(frames)
  /\ UNCHANGED <<pipelineVars, pc, features, previous, sheet, info, error,
                 map, polygonLayer, markerGroup, issueSel, drawer,
                 currentFilteredByWard, filter, tab, events>>

\* lines 447-463: the button of a popup opens the detail view of its ward, or
\* of the mayoral candidates
openWardInNewTab ==
  /\ pc = "idle" /\ ~hasSheet(variant) /\ events < MaxEvents
  /\ \E i \in 1..Len(markerGroup.layers) :
       LET wardKey_safe == markerGroup.layers[i].key
           found == SelectSeq(wardCenters, LAMBDA w : w.key = wardKey_safe)
       IN tab' = IF wardKey_safe = sMayorKey
                 THEN [rows |-> mayorAll, name |-> sMayoralCandidates]
                 ELSE [rows |-> mapGet(currentFilteredByWard, wardKey_safe),
                       name |-> IF found # <<>> THEN found[1].name
                                ELSE sWardSp \o wardKey_safe]
  /\ events' = events + 1
  /\ UNCHANGED <<pipelineVars, pc, features, previous, sheet, info, error,
                 map, polygonLayer, markerGroup, issueSel, drawer,
                 currentFilteredByWard, filter, frames, fills>>

\* part_000 lines 636-668, renderWardDrawer(wardKey) with the drawer's own
\* filters cleared: one table row per candidate of the ward under the map
\* filter and issue column the candidate answered yes, no or undecided to
RECURSIVE renderWardDrawer(_)
renderWardDrawer(list) ==
  IF list = <<>> THEN <<>>
  ELSE SelectSeq([i \in 1..Len(survey.issueColumns) |->
                    [row |-> Head(list), issue |-> survey.issueColumns[i]]],
                 LAMBDA f : ynuNormalize(Get(survey.rows[f.row + 1], f.issue)) # <<>>)
       \o renderWardDrawer(Tail(list))
sheetUnchanged ==
  UNCHANGED <<pipelineVars, pc, features, previous, info, error, map, polygonLayer,
              markerGroup, issueSel, drawer, currentFilteredByWard, filter, frames,
              fills, tab>>
\* part_000 lines 596-619: the button of a ward popup; the table is rendered,
\* the overlay shown and scrolling locked at once, the slide-in is queued
openWardDrawer ==
  /\ pc = "idle" /\ hasSheet(variant) /\ events < MaxEvents
  /\ \E i \in 1..Len(markerGroup.layers) :
       /\ markerGroup.layers[i].key # sMayorKey
       /\ sheet' = [sheet EXCEPT
                      !.key = markerGroup.layers[i].key,
                      !.rendered = renderWardDrawer(
                                     mapGet(currentFilteredByWard, markerGroup.layers[i].key)),
                      !.overlay = TRUE,
                      !.locked = TRUE,
                      !.pending = @ + 1,
                      !.last = "open"]
  /\ events' = events + 1
  /\ sheetUnchanged
\* variant: closing also drops the slide-in callbacks still queued
closeWardDrawer_cancel ==
  /\ pc = "idle" /\ hasSheet(variant) /\ events < MaxEvents
  /\ sheet.overlay \/ sheet.slid
  /\ sheet' = [sheet EXCEPT !.axis = IF sheet.mobile THEN "Y" ELSE "X",
                            !.slid = FALSE, !.overlay = FALSE, !.locked = FALSE,
                            !.pending = 0, !.last = "close"]
  /\ events' = events + 1
  /\ sheetUnchanged
\* part_000 lines 621-634: a click on the overlay or on the close button
closeWardDrawer ==
  /\ pc = "idle" /\ hasSheet(variant) /\ events < MaxEvents
  /\ sheet.overlay \/ sheet.slid
  /\ sheet' = [sheet EXCEPT !.axis = IF sheet.mobile THEN "Y" ELSE "X",
                            !.slid = FALSE, !.overlay = FALSE, !.locked = FALSE,
                            !.last = "close"]
  /\ events' = events + 1
  /\ sheetUnchanged
\* part_000 lines 609-618: a queued slide-in callback runs
slideIn ==
  /\ pc = "idle" /\ hasSheet(variant) /\ sheet.pending > 0
  /\ sheet' = [sheet EXCEPT !.axis = IF sheet.mobile THEN "Y" ELSE "X",
                            !.slid = TRUE, !.pending = @ - 1]
  /\ UNCHANGED events
  /\ sheetUnchanged
\* part_000 line 533: the window is resized, to either side of the breakpoint
resize ==
  /\ pc = "idle" /\ hasSheet(variant) /\ events < MaxEvents
  /\ \E mobile \in BOOLEAN : sheet' = setDrawerSize(sheet, mobile)
  /\ events' = events + 1
  /\ sheetUnchanged

Next ==
  \/ CleanShort
  \/ CleanHeaders
  \/ CleanRow
  \/ CleanReturn
  \/ WardCenters
  \/ AggregateRow
  \/ AggregateDone

\* the whole page: start-up, the pipeline, the control, user events
NextPage ==
  \/ CreateMap
  \/ LoadWards
  \/ LoadSurvey
  \/ Next
  \/ injectControlUI
  \/ buildDrawerUI
  \/ ChangeFilter
  \/ RunFrame
  \/ openWardInNewTab

\* the page of part_000: the same start-up and filter control, the drawer in
\* place of the detail tab; without and with resize events
NextSheet ==
  \/ CreateMap
  \/ LoadWards
  \/ LoadSurvey
  \/ Next
  \/ injectControlUI
  \/ buildDrawerUI
  \/ ChangeFilter
  \/ RunFrame
  \/ openWardDrawer
  \/ closeWardDrawer
  \/ slideIn
NextResize == NextSheet \/ resize
\* either page, by its variant
NextEither ==
  \/ NextPage
  \/ openWardDrawer
  \/ closeWardDrawer
  \/ slideIn
  \/ resize

\* Papa.parse(t,{skipEmptyLines:'greedy'}) drops every line whose cells are
\* all empty or whitespace, so no such row is in papa.data.
greedyKeeps(row) == \E i \in 1..Len(row) : trim(row[i]) # <<>>

\* A feature of wards.geojson: its properties and what each centroid method
\* does on its geometry.
Feature(p, com, cen, bnd) ==
  [properties |-> p, centerOfMass |-> com, centroid |-> cen, bounds |-> bnd]
noProperties ==
  [ward_num |-> undefined, label |-> undefined, WARD |-> undefined,
   Ward |-> undefined, name |-> undefined, id |-> undefined]
\* one ward, numbered 7, with a centre of mass
DefaultFeatures ==
  <<Feature([noProperties EXCEPT !.ward_num = Num(7)], "finite", "finite", "finite")>>

\* The state when the DOMContentLoaded handler starts (line 11): the page
\* will be served the parsed grid g and the ward features f.
InitPage(G, V, F) ==
  /\ previous = null /\ sheet = null /\ info = null
  /\ data \in {g \in G : \A i \in 1..Len(g) : greedyKeeps(g[i])}
  /\ variant \in V
  /\ features \in F
  /\ pc = "start"
  /\ header1IsChoices = FALSE
  /\ wardSlice = null
  /\ groups = [keys |-> <<>>, idx |-> EmptyObj]
  /\ choiceIndexByGroup = EmptyObj
  /\ firstIdx = -1 /\ lastIdx = -1 /\ nameMixedCol = -1
  /\ r = 0 /\ rows = <<>> /\ rowSrc = <<>>
  /\ survey = emptySurvey
  /\ ai = 0
  /\ byWardAll = emptyMap
  /\ mayorAll = <<>>
  /\ wardCenters = <<>>
  /\ error = null /\ map = null /\ polygonLayer = null /\ markerGroup = null
  /\ issueSel = null /\ drawer = null
  /\ currentFilteredByWard = emptyMap
  /\ filter = null /\ frames = <<>> /\ fills = <<>> /\ tab = null
  /\ runs = [clean |-> 0, aggregate |-> 0]
  /\ events = 0

\* The state when the DOMContentLoaded handler reaches line 167 with the
\* parsed grid g, running iteration v of the script.
InitWith(G, V) ==
  /\ previous = null /\ sheet = null /\ info = null
  /\ data \in {g \in G : \A i \in 1..Len(g) : greedyKeeps(g[i])}
  /\ variant \in V
  /\ pc = "clean"
  /\ features = DefaultFeatures
  /\ wardCenters = <<>>
  /\ error = null
  /\ map = [tiles |-> TRUE]
  /\ polygonLayer = [data |-> [i \in 1..Len(DefaultFeatures) |-> i]]
  /\ markerGroup = [layers |-> <<>>]
  /\ issueSel = null /\ drawer = null
  /\ currentFilteredByWard = emptyMap
  /\ filter = null /\ frames = <<>> /\ fills = [i \in 1..Len(DefaultFeatures) |-> plain] /\ tab = null
  /\ runs = [clean |-> 0, aggregate |-> 0]
  /\ events = 0
  /\ header1IsChoices = FALSE
  /\ wardSlice = null
  /\ groups = [keys |-> <<>>, idx |-> EmptyObj]
  /\ choiceIndexByGroup = EmptyObj
  /\ firstIdx = -1 /\ lastIdx = -1 /\ nameMixedCol = -1
  /\ r = 0 /\ rows = <<>> /\ rowSrc = <<>>
  /\ survey = emptySurvey
  /\ ai = 0
  /\ byWardAll = emptyMap
  /\ mayorAll = <<>>

\* a grid too short to hold two header rows
ShortGrids == {<<>>, <<<<sQ1, sQ2>>>>}

\* all sequences over V of length n / of length 1..n
SeqsOf(V, n) == [1..n -> V]
SeqsUpTo(V, n) == UNION {[1..k -> V] : k \in 1..n}
Repeat(x, n) == [i \in 1..n |-> x]

(***************************************************************************)
(* Second header rows of every shape: one question stem per column, one    *)
(* data row, and a second row drawn from token, near-token and blank cells. *)
(***************************************************************************)
MaxHeader1Cols == 4
Header1Cells == {sEmpty, sSp, sYES, sWard07, sWardx, sMayorOf2}
GridsHeader1 == ShortGrids \cup
  {<<Repeat(sQ1, Len(h1)), h1, Repeat(sX, Len(h1))>> :
     h1 \in SeqsUpTo(Header1Cells, MaxHeader1Cols)}
InitHeader1 == InitWith(GridsHeader1, {"voter_guide"})
SpecHeader1 == InitHeader1 /\ [][Next]_vars

\* C3: header1IsChoices is true iff row 1 has a non-empty (trimmed) cell and
\* at least half of its non-empty cells match the choice vocabulary; exactly
\* half gives true, 1 of 3 gives false, no non-empty cell gives false.
C3_NonEmpty == {i \in 1..Len(header1) : trim(header1[i]) # <<>>}
C3_Matching == {i \in C3_NonEmpty : isChoiceToken(header1[i])}
C3_ChoiceRowThreshold ==
  (pc # "clean" /\ Len(data) >= 2) =>
     /\ header1IsChoices =
          (C3_NonEmpty # {} /\ 2 * Cardinality(C3_Matching) >= Cardinality(C3_NonEmpty))
     /\ (C3_NonEmpty = {} => ~header1IsChoices)
     /\ (Cardinality(C3_NonEmpty) = 2 /\ Cardinality(C3_Matching) = 1
           => header1IsChoices)
     /\ (Cardinality(C3_NonEmpty) = 3 /\ Cardinality(C3_Matching) = 1
           => ~header1IsChoices)
\* row 1 with exactly half of its non-empty cells in the vocabulary, classified
C3_Witness ==
  /\ pc = "rows" /\ header1IsChoices
  /\ Cardinality(C3_NonEmpty) = 4 /\ Cardinality(C3_Matching) = 2
  /\ \E i \in C3_NonEmpty : header1[i] = sWard07

(***************************************************************************)
(* First header rows holding the ward-block anchors in every position,     *)
(* under the two conventions for the slice's lower bound.                  *)
(***************************************************************************)
MaxAnchorCols == 4
AnchorCells == {sEmpty, sQ1, sAnchor, sNameEmail, sNameEmailAlt}
GridsAnchor == ShortGrids \cup
  {<<h0, Repeat(sCapYes, Len(h0)), Repeat(sX, Len(h0))>> :
     h0 \in SeqsUpTo(AnchorCells, MaxAnchorCols)}
InitAnchor == InitWith(GridsAnchor, {"voter_guide", "part_000"})
SpecAnchor == InitAnchor /\ [][Next]_vars

\* C2: the ward slice is {start: idxStart+1, end: idxEndFallback} whenever
\* idxStart >= 0 and idxEndFallback > idxStart, and null otherwise; the anchor
\* column idxStart is never inside the ward block.
C2_First(S) == IF S = {} THEN -1 ELSE CHOOSE i \in S : \A j \in S : i <= j
C2_Cells(p) == {i \in 0..(Len(header0) - 1) : Includes(lc(header0[i + 1]), p)}
C2_Start == C2_First(C2_Cells(reCandidateFor))
C2_End ==
  IF C2_Cells(reCandidateNameAndEmail) # {}
  THEN C2_First(C2_Cells(reCandidateNameAndEmail))
  ELSE C2_First(C2_Cells(reCandidateName) \cap C2_Cells(reEmail))
C2_WardSliceStartsAfterAnchor ==
  (pc # "clean" /\ Len(data) >= 2) =>
     /\ wardSlice = IF C2_Start >= 0 /\ C2_End > C2_Start
                    THEN [start |-> C2_Start + 1, end |-> C2_End] ELSE null
     /\ (wardSlice # null => C2_Start \notin skipIdx(wardSlice))

(***************************************************************************)
(* First header rows mixing question stems, blank and "Unnamed" spill-over  *)
(* cells, padded stems and the ward-block anchors.                          *)
(***************************************************************************)
MaxGroupCols == 3
GroupCells == {sEmpty, sSp, sQ1, sQ1Pad, sUnnamed2, sQ2, sAnchor, sNameEmail}
GridsGroup == ShortGrids \cup
  {<<h0, Repeat(sCapYes, Len(h0)), Repeat(sX, Len(h0))>> :
     h0 \in SeqsOf(GroupCells, MaxGroupCols) \cup {<<sQ1, sEmpty, sUnnamed2, sQ2>>}}
InitGroup == InitWith(GridsGroup, {"voter_guide"})
SpecGroup == InitGroup /\ [][Next]_vars

\* the elements of a finite set of integers, in ascending order
Ascending(S) ==
  [p \in 1..Cardinality(S) |->
     CHOOSE x \in S : Cardinality({y \in S : y < x}) = p - 1]
\* the effective header of column i, as the claims state it
Effective[i \in 0..(Len(header0) - 1)] ==
  IF header0[i + 1] # <<>> /\ ~StartsWith(lc(header0[i + 1]), reUnnamed)
  THEN header0[i + 1]
  ELSE IF i = 0 THEN <<>> ELSE Effective[i - 1]
InSlice(i) == wardSlice # null /\ wardSlice.start <= i /\ i < wardSlice.end
Grouped == {i \in 0..(Len(header0) - 1) : Effective[i] # <<>> /\ ~InSlice(i)}
Headed == pc # "clean" /\ Len(data) >= 2

\* C4: every column with a non-empty effective (forward-filled) header that
\* lies outside the ward slice is appended, left to right, to the group keyed
\* by the trimmed effective header; ["Q1", "", "Unnamed: 2", "Q2"] yields
\* "Q1" = columns 0,1,2 and "Q2" = column 3.
C4_ForwardFillGroups ==
  Headed =>
     /\ DOMAIN groups.idx = {trim(Effective[i]) : i \in Grouped}
     /\ \A k \in DOMAIN groups.idx :
          groups.idx[k] = Ascending({i \in Grouped : trim(Effective[i]) = k})
     /\ (header0 = <<sQ1, sEmpty, sUnnamed2, sQ2>> =>
           groups.idx = (sQ1 :> <<0, 1, 2>>) @@ (sQ2 :> <<3>>))
C4_Witness ==
  /\ pc = "rows" /\ header0 = <<sQ1, sEmpty, sUnnamed2, sQ2>>
  /\ groups.idx[sQ1] = <<0, 1, 2>> /\ groups.idx[sQ2] = <<3>>

\* C10: every column outside the ward slice whose effective header is
\* non-empty belongs to exactly one group, no column appears twice in a
\* group, and no column inside the ward slice belongs to any group.
C10_Occurrences(i) ==
  {<<k, p>> \in UNION {{k} \X (1..Len(groups.idx[k])) : k \in DOMAIN groups.idx} :
     groups.idx[k][p] = i}
C10_GroupPartition ==
  Headed =>
     \A i \in 0..(Len(header0) - 1) :
        /\ (i \in Grouped => Cardinality(C10_Occurrences(i)) = 1)
        /\ (InSlice(i) => C10_Occurrences(i) = {})
        /\ Cardinality(C10_Occurrences(i)) <= 1
\* a ward slice between two grouped columns with different stems
C10_Witness ==
  /\ pc = "rows" /\ wardSlice = [start |-> 1, end |-> 2]
  /\ 0 \in Grouped /\ 2 \in Grouped
  /\ Cardinality(DOMAIN groups.idx) = 2

(***************************************************************************)
(* A choice-row survey whose ward block has two columns, labelled in the   *)
(* second header row with every pair of ward / mayor labels; each data row  *)
(* marks the first column, the second, or neither.                          *)
(***************************************************************************)
MaxWardRows == 2
WardLabels == {sMayorCap, sMayorOf2, sWard07, sWard7, sAtLarge}
WardMarks == {<<sX, sEmpty>>, <<sEmpty, sX>>, <<sEmpty, sEmpty>>}
GridsWard == ShortGrids \cup
  {<<<<sAnchor, sEmpty, sNameEmail, sQ1>>, <<l[1], l[2], sFirst, sCapYes>>>>
     \o [i \in 1..Len(ms) |-> <<ms[i][1], ms[i][2], sJane, sX>>] :
     l \in SeqsOf(WardLabels, 2), ms \in SeqsUpTo(WardMarks, MaxWardRows)}
InitWard == InitWith(GridsWard, {"voter_guide", "part_001"})
SpecWard == InitWard /\ [][Next]_vars

\* the rows the aggregation loop has gone through, and where they were put
Aggregated == IF pc = "ready" THEN 0..(Len(survey.rows) - 1)
              ELSE IF pc = "aggregate" THEN 0..(ai - 1) ELSE {}
WardOf(ref) == Get(survey.rows[ref + 1], fWard)
Places(list, ref) == {p \in 1..Len(list) : list[p] = ref}
WardPlaces(ref) ==
  {<<k, p>> \in UNION {{k} \X (1..Len(byWardAll.list[k])) : k \in DOMAIN byWardAll.list} :
     byWardAll.list[k][p] = ref}

\* C5: every row whose __Ward matches /mayor/i (even with digits in the label)
\* is in the mayoral list and in no ward-keyed list; no row is in more than
\* one ward-keyed list or more than once in any list.
C5_MayorWardExclusive ==
  \A ref \in Aggregated :
     /\ (Includes(lc(WardOf(ref)), tMayor) =>
           Places(mayorAll, ref) # {} /\ WardPlaces(ref) = {})
     /\ Cardinality(WardPlaces(ref)) <= 1
     /\ Cardinality(Places(mayorAll, ref)) <= 1

\* C6: a non-mayoral row is appended, in input order, to the list keyed by the
\* first digit run of __Ward with its leading zeros dropped ("Ward 07" and
\* "Ward 7" both give "7"); without a digit it is in no list at all.
C6_DigitRun(w) ==
  IF \A i \in 1..Len(w) : ~IsDigit(w[i]) THEN <<>>
  ELSE LET a == CHOOSE i \in 1..Len(w) :
                  IsDigit(w[i]) /\ \A j \in 1..(i - 1) : ~IsDigit(w[j])
           n == CHOOSE n \in 1..(Len(w) - a + 1) :
                  /\ \A j \in a..(a + n - 1) : IsDigit(w[j])
                  /\ (a + n > Len(w) \/ ~IsDigit(w[a + n]))
       IN SubSeq(w, a, a + n - 1)
RECURSIVE C6_DropZeros(_)
C6_DropZeros(d) ==
  IF Len(d) > 1 /\ d[1] = "0" THEN C6_DropZeros(Tail(d)) ELSE d
C6_WardKeyLists ==
  /\ \A k \in DOMAIN byWardAll.list :
        /\ k # <<>> /\ \A i \in 1..Len(k) : IsDigit(k[i])
        /\ (Len(k) > 1 => k[1] # "0")
        /\ \A p, q \in 1..Len(byWardAll.list[k]) :
              p < q => byWardAll.list[k][p] < byWardAll.list[k][q]
  /\ \A ref \in Aggregated :
        ~Includes(lc(WardOf(ref)), tMayor) =>
           /\ Places(mayorAll, ref) = {}
           /\ IF C6_DigitRun(WardOf(ref)) = <<>> THEN WardPlaces(ref) = {}
              ELSE \E p \in 1..Len(survey.rows) :
                     WardPlaces(ref) = {<<C6_DropZeros(C6_DigitRun(WardOf(ref))), p>>}
           /\ (WardOf(ref) \in {sWard07, sWard7} =>
                 \E p \in 1..Len(survey.rows) : WardPlaces(ref) = {<<<<"7">>, p>>})
\* "Ward 07" and "Ward 7" rows collected, in input order, under key "7"
C6_Witness ==
  /\ pc = "ready" /\ Len(survey.rows) = 2
  /\ WardOf(0) = sWard07 /\ WardOf(1) = sWard7
  /\ byWardAll.list = (<<"7">> :> <<0, 1>>)

(***************************************************************************)
(* A survey with a two-column ward block, a name column and one question;  *)
(* the block's header cells are present, blank or missing in either header  *)
(* row, the second row is or is not a choice row, and each data row fills   *)
(* any of the ward cells, the name and the answer.                          *)
(***************************************************************************)
MaxSliceRows == 1
SliceRest == {<<sEmpty, sEmpty>>, <<sJane, sEmpty>>, <<sEmpty, sX>>}
SliceRows ==
  {<<c0, c1, nq[1], nq[2]>> :
     c0 \in {sEmpty, sWard7}, c1 \in {sEmpty, sSp, sWard7}, nq \in SliceRest}
SliceHeaders ==
  {<<<<sAnchor, a, sNameEmail, sQ1>>, <<l0, l1, tu[1], tu[2]>>>> :
     a \in {sEmpty, sWard14}, l0 \in {sEmpty, sWard07},
     l1 \in {sEmpty, sSp, sWard07},
     tu \in {<<sFirst, sCapYes>>, <<sMaybe, sMaybe>>}}
GridsSlice == ShortGrids \cup
  {h \o rs : h \in SliceHeaders, rs \in SeqsUpTo(SliceRows, MaxSliceRows)}
InitSlice == InitWith(GridsSlice, {"voter_guide"})
SpecSlice == InitSlice /\ [][Next]_vars

\* the grid rows the row loop has gone through
DataStart == IF header1IsChoices THEN 2 ELSE 1
Processed == IF pc = "clean" \/ Len(data) < 2 THEN {}
             ELSE IF pc = "rows" THEN DataStart..(r - 1)
             ELSE DataStart..(Len(data) - 1)
\* the retained rows built from grid row src
RetainedFrom(src) == {j \in 1..Len(rows) : rowSrc[j] = src}
First(S) == CHOOSE x \in S : \A y \in S : x <= y

\* C8: with a ward slice, __Ward is decided by the leftmost slice column c
\* with a non-empty cell: header1[c] if header1IsChoices and it is non-empty,
\* else header0[c] if non-empty, else the raw cell; "" when no slice cell is
\* non-empty; so __Ward is non-empty whenever a slice cell is non-empty.
C8_Marked(arr) ==
  {c \in wardSlice.start..(wardSlice.end - 1) : trim(Cell(arr, c)) # <<>>}
C8_Label(arr, c) ==
  IF header1IsChoices /\ trim(Cell(header1, c)) # <<>> THEN trim(Cell(header1, c))
  ELSE IF trim(Cell(header0, c)) # <<>> THEN trim(Cell(header0, c))
  ELSE trim(Cell(arr, c))
C8_WardLabel ==
  wardSlice # null =>
    /\ \A j \in 1..Len(rows) :
         Get(rows[j], fWard) =
           IF C8_Marked(data[rowSrc[j] + 1]) = {} THEN <<>>
           ELSE C8_Label(data[rowSrc[j] + 1], First(C8_Marked(data[rowSrc[j] + 1])))
    /\ \A src \in Processed :
         C8_Marked(data[src + 1]) # {} =>
           \E j \in RetainedFrom(src) : Get(rows[j], fWard) # <<>>

\* C9: a data row is kept iff at least one of its resolved fields is
\* non-empty after trimming; every retained row has a non-empty field, fully
\* blank rows are skipped, and retained rows keep the input order.
C9_SomeField(obj) == \E k \in DOMAIN obj : trim(obj[k]) # <<>>
C9_Blank(arr) == \A i \in 1..Len(arr) : trim(arr[i]) = <<>>
C9_RowAdmission ==
  /\ \A src \in Processed :
       /\ Cardinality(RetainedFrom(src)) =
            IF C9_SomeField(rowObject(data[src + 1])) THEN 1 ELSE 0
       /\ (C9_Blank(data[src + 1]) => RetainedFrom(src) = {})
  /\ \A j \in 1..Len(rows) :
       /\ rowSrc[j] \in Processed
       /\ rows[j] = rowObject(data[rowSrc[j] + 1])
       /\ C9_SomeField(rows[j])
       /\ \A i \in 1..(j - 1) : rowSrc[i] < rowSrc[j]
\* two rows retained in input order, the second only for its name, while a
\* row whose name, ward and answer cells are blank was dropped
C9_Witness ==
  /\ pc = "aggregate" /\ ~header1IsChoices /\ Len(data) = 3
  /\ rowSrc = <<1, 2>>
  /\ data[3] = <<sEmpty, sSp, sJane, sEmpty>>
  /\ Get(rows[2], fNameMixed) = sJane /\ Get(rows[2], fWard) = <<>>
  /\ Get(rows[2], sQ1) = <<>>

(***************************************************************************)
(* One question spread over three columns whose second-row labels are any  *)
(* arrangement of yes / no / undecided / comment labels; each data row      *)
(* fills any subset of the three cells.                                     *)
(***************************************************************************)
MaxChoiceRows == 1
ChoiceLabels == {sYES, sCapNo, sCapUndecided, sComments}
ChoiceRows ==
  {<<c0, c1, c2>> : c0 \in {sEmpty, sSp, sX}, c1 \in {sEmpty, sX}, c2 \in {sEmpty, sX}}
GridsChoice == ShortGrids \cup
  {<<<<sQ1, sEmpty, sUnnamed2>>, h1>> \o rs :
     h1 \in SeqsOf(ChoiceLabels, 3), rs \in SeqsUpTo(ChoiceRows, MaxChoiceRows)}
InitChoice == InitWith(GridsChoice, {"voter_guide"})
SpecChoice == InitChoice /\ [][Next]_vars

\* C1: in choice mode the answer of a group is decided by its yes-labelled
\* columns, then its no-labelled, then its undecided-labelled columns: the
\* first with a non-empty (trimmed) cell gives "Yes" / "No" / "Undecided"
\* whatever the cell's text, and "" if there is none; so an empty yes cell
\* and a non-empty no cell resolve to "No".
C1_Labelled(g, label) ==
  {i \in 0..(Len(header0) - 1) :
     /\ \E p \in 1..Len(groups.idx[g]) : groups.idx[g][p] = i
     /\ lc(trim(Cell(header1, i))) = label}
C1_Filled(arr, g, label) ==
  \E i \in C1_Labelled(g, label) : trim(Cell(arr, i)) # <<>>
C1_Answer(arr, g) ==
  IF C1_Filled(arr, g, tYes) THEN sCapYes
  ELSE IF C1_Filled(arr, g, tNo) THEN sCapNo
  ELSE IF C1_Filled(arr, g, tUndecided) THEN sCapUndecided
  ELSE <<>>
C1_AnswerPrecedence ==
  (Headed /\ header1IsChoices) =>
    /\ \A j \in 1..Len(rows) : \A g \in DOMAIN groups.idx :
         /\ Get(rows[j], g) = C1_Answer(data[rowSrc[j] + 1], g)
         /\ Get(rows[j], g) \in {sCapYes, sCapNo, sCapUndecided, <<>>}
         /\ (~C1_Filled(data[rowSrc[j] + 1], g, tYes)
               /\ C1_Filled(data[rowSrc[j] + 1], g, tNo)
               => Get(rows[j], g) = sCapNo)
    /\ \A src \in Processed : \A g \in DOMAIN groups.idx :
         C1_Answer(data[src + 1], g) # <<>> => RetainedFrom(src) # {}
\* the undecided column, left of the no column, is filled too; yes is empty
C1_Witness ==
  /\ pc = "aggregate" /\ header1IsChoices
  /\ header1 = <<sCapUndecided, sCapNo, sYES>>
  /\ data[3] = <<sX, sX, sEmpty>>
  /\ Len(rows) = 1 /\ Get(rows[1], sQ1) = sCapNo

(***************************************************************************)
(* Two free-text questions (the second row is not a choice row, so it is   *)
(* the first data row) answered by up to MaxTallyRows further rows, in      *)
(* every mix of four kinds of row.                                          *)
(***************************************************************************)
MaxTallyRows == 9
TallyKinds == <<<<sYES, sCapNo>>, <<sCapYes, sMaybe>>,
                <<sMaybe, sCapUndecided>>, <<sMaybe, sEmpty>>>>
TallyRows(n) ==
  Repeat(TallyKinds[1], n[1]) \o Repeat(TallyKinds[2], n[2])
    \o Repeat(TallyKinds[3], n[3]) \o Repeat(TallyKinds[4], n[4])
GridsTally == ShortGrids \cup
  {<<<<sQ1, sQ2>>, <<sMaybe, sMaybe>>>> \o TallyRows(n) :
     n \in {m \in SeqsOf(0..MaxTallyRows, 4) :
              m[1] + m[2] + m[3] + m[4] <= MaxTallyRows}}
InitTally == InitWith(GridsTally, {"voter_guide"})
SpecTally == InitTally /\ [][Next]_vars

\* C7: a group key is in issueColumns iff nonEmpty > 0 and
\* ynuCount / nonEmpty >= 0.7 over the retained rows (7 of 10 is in, 6 of 10
\* is out); issueColumns keeps the order of the group keys.
Returned == pc \in {"aggregate", "ready"} /\ Len(data) >= 2
C7_NonEmpty(c) ==
  Cardinality({j \in 1..Len(survey.rows) : trim(Get(survey.rows[j], c)) # <<>>})
C7_Ynu(c) ==
  Cardinality({j \in 1..Len(survey.rows) :
                 lc(trim(Get(survey.rows[j], c))) \in {tYes, tNo, tUndecided}})
C7_IsIssue(c) == C7_NonEmpty(c) > 0 /\ 10 * C7_Ynu(c) >= 7 * C7_NonEmpty(c)
C7_IssueThreshold ==
  Returned =>
    /\ survey.issueColumns = SelectSeq(survey.cols, C7_IsIssue)
    /\ \A i \in 1..Len(survey.cols) :
         LET c == survey.cols[i]
             listed == \E p \in 1..Len(survey.issueColumns) :
                         survey.issueColumns[p] = c
         IN /\ (C7_NonEmpty(c) = 10 /\ C7_Ynu(c) = 7 => listed)
            /\ (C7_NonEmpty(c) = 10 /\ C7_Ynu(c) = 6 => ~listed)
\* Q1 answered yes/no/undecided in exactly 7 of 10 rows and listed, after Q2
\* was left out with 6 of 10
C7_Witness ==
  /\ Returned
  /\ C7_NonEmpty(sQ1) = 10 /\ C7_Ynu(sQ1) = 7
  /\ C7_NonEmpty(sQ2) = 10 /\ C7_Ynu(sQ2) = 6
  /\ survey.cols = <<sQ1, sQ2>> /\ survey.issueColumns = <<sQ1>>

(***************************************************************************)
(* Question headers that are words, decimal integers and zero-padded       *)
(* numbers, in every order, over a choice row and one data row.            *)
(***************************************************************************)
MaxKeyCols == 3
KeyCells == {sEmpty, sQ1, sQ1Pad, sQ2, s7, s10, s07}
\* the same with a ward block in front of two numbered questions
KeysWardGrid ==
  <<<<sAnchor, sEmpty, sNameEmail, s10, s7>>,
    <<sWard7, sWard14, sFirst, sCapYes, sCapYes>>,
    <<sX, sEmpty, sJane, sX, sX>>>>
GridsKeys == ShortGrids \cup {KeysWardGrid} \cup
  {<<h0, Repeat(sCapYes, Len(h0)), Repeat(sX, Len(h0))>> :
     h0 \in SeqsUpTo(KeyCells, MaxKeyCols)}
InitKeys == InitWith(GridsKeys, {"voter_guide"})
SpecKeys == InitKeys /\ [][Next]_vars

\* the distinct trimmed effective headers of the non-skipped columns, in the
\* order of their first occurrence from the left
C11_FirstAt(i) ==
  i \in Grouped /\ \A j \in Grouped : j < i => trim(Effective[j]) # trim(Effective[i])
C11_FirstOccurrence ==
  LET firsts == Ascending({i \in Grouped : C11_FirstAt(i)})
  IN [p \in 1..Len(firsts) |-> trim(Effective[firsts[p]])]
\* C11: the group keys are enumerated (in cols, hence in issueColumns and in
\* the filter control) in the first-occurrence order, left to right, of the
\* distinct trimmed effective headers of the non-skipped columns, whatever
\* the header text, decimal integers included.
C11_GroupKeyOrder ==
  Returned =>
    /\ survey.cols = C11_FirstOccurrence
    /\ groupKeys(groups) = C11_FirstOccurrence
\* the same statement over headers none of which is a canonical integer
C11_WordKeysOnly ==
  (Returned /\ \A i \in 1..Len(header0) : ~IsArrayIndexKey(trim(header0[i])))
    => survey.cols = C11_FirstOccurrence

(***************************************************************************)
(* Surveys without the ward anchors: the ward is asked in an ordinary       *)
(* column headed "Your ward" (or "Wards", which does not hold the word),    *)
(* before or after a question; the second row is a choice row or the first  *)
(* data row.                                                                *)
(***************************************************************************)
MaxFallbackRows == 2
FallbackHeaders == {<<sYourWard, sQ1>>, <<sQ1, sYourWard>>, <<sWardx, sQ1>>}
FallbackSecond == {<<sCapYes, sCapYes>>, <<sAtLarge, sMaybe>>, <<s10, sMaybe>>}
FallbackCells == {sWard07, sCapYes, sEmpty}
GridsFallback == ShortGrids \cup
  {<<h0, h1>> \o rs :
     h0 \in FallbackHeaders, h1 \in FallbackSecond,
     rs \in SeqsUpTo(SeqsOf(FallbackCells, 2), MaxFallbackRows)}
InitFallback == InitWith(GridsFallback, {"voter_guide", "part_002"})
SpecFallback == InitFallback /\ [][Next]_vars

\* C12: without a ward slice the ward comes from the group whose header holds
\* the word "ward": a row whose value there has a digit run is placed by the
\* aggregator under that run's ward key.
C12_WardHeaders == {i \in 1..Len(survey.cols) : reWardWord(survey.cols[i])}
C12_Placed(ref, c) ==
  C6_DigitRun(Get(survey.rows[ref + 1], c)) # <<>> =>
    \E p \in 1..Len(survey.rows) :
       <<C6_DropZeros(C6_DigitRun(Get(survey.rows[ref + 1], c))), p>> \in WardPlaces(ref)
C12_WardFallback ==
  (pc = "ready" /\ Len(data) >= 2 /\ wardSlice = null) =>
     \A i \in C12_WardHeaders : \A ref \in 0..(Len(survey.rows) - 1) :
        C12_Placed(ref, survey.cols[i])
\* the same statement for the iteration that reads survey.wardColumn
C12_Part002 == variant = "part_002" => C12_WardFallback

(***************************************************************************)
(* The whole page on a survey with a ward block (a ward column and a mayor  *)
(* column), a name and one question with a yes and a no column, or on a     *)
(* grid too short to hold headers; either fetch may fail.                   *)
(***************************************************************************)
MaxPageRows == 2
PageRows ==
  {<<w[1], w[2], sJane, a[1], a[2]>> :
     w \in {<<sX, sEmpty>>, <<sEmpty, sX>>},
     a \in {<<sX, sEmpty>>, <<sEmpty, sX>>, <<sEmpty, sEmpty>>}}
GridsPage == ShortGrids \cup
  {<<<<sAnchor, sEmpty, sNameEmail, sQ1, sEmpty>>,
     <<sWard7, sMayorCap, sFirst, sCapYes, sCapNo>>>> \o rs :
     rs \in SeqsUpTo(PageRows, MaxPageRows)}
InitLoad == InitPage(GridsPage, {"voter_guide"}, {DefaultFeatures})
SpecLoad == InitLoad /\ [][NextPage]_vars

\* what a failed fetch leaves behind that both readings of C13 agree on: the
\* error names the path and the status, and neither the pipeline nor
\* applyFilters has run
C13_Aborted ==
  /\ \E status \in HttpStatuses :
       /\ ~(status >= 200 /\ status <= 299)
       /\ error \in {[path |-> WARDS_PATH, status |-> status],
                     [path |-> SURVEY_PATH, status |-> status]}
  /\ runs = [clean |-> 0, aggregate |-> 0]
  /\ survey.rows = <<>> /\ byWardAll.keys = <<>> /\ mayorAll = <<>>
  /\ filter = null /\ frames = <<>>
\* nothing is on the page: no map, no tile layer, no polygon, no control, no
\* marker, no drawer
C13_NothingRendered ==
  /\ map = null
  /\ polygonLayer = null \/ polygonLayer.data = <<>>
  /\ markerGroup = null \/ markerGroup.layers = <<>>
  /\ issueSel = null
  /\ drawer = null
\* C13: when the fetch of wards.geojson or survey.csv answers with a non-OK
\* status, start-up aborts with an error carrying the path and the status,
\* nothing has been rendered at that point, and the survey pipeline and
\* applyFilters never run.
C13_FetchFailureFatal ==
  /\ pc = "failed" => C13_Aborted /\ C13_NothingRendered
  /\ error # null => pc = "failed"
\* the same without the rendering part
C13_AbortOnly ==
  /\ pc = "failed" => C13_Aborted
  /\ error # null => pc = "failed"

\* C17: a parsed grid with fewer than 2 rows makes cleanSurveyFromPapa return
\* the explicit empty result (no rows, no issue column, no ward column, no
\* group) without an error, and start-up completes usable but empty: the
\* filter control offers no issue, every ward popup lists no candidate and
\* the mayoral list is empty.
C17_Cleaned == pc \in {"centers", "aggregate", "ready", "drawer", "idle"}
C17_ShortGridEmpty ==
  Len(data) < 2 =>
    /\ pc \notin {"rows", "failed"} \/ runs.clean = 0
    /\ C17_Cleaned =>
         /\ survey.rows = <<>> /\ survey.issueColumns = <<>>
         /\ survey.wardColumn = <<>> /\ survey.cols = <<>>
         /\ DOMAIN survey.commentForIssue = {}
         /\ groups.keys = <<>>
         /\ error = null
         /\ byWardAll.keys = <<>> /\ mayorAll = <<>>
    /\ pc \in {"drawer", "idle"} =>
         /\ issueSel.options = <<sEmpty>>
         /\ Len(markerGroup.layers) = Len(wardCenters) + 1
         /\ \A i \in 1..Len(markerGroup.layers) : markerGroup.layers[i].list = <<>>
    /\ pc = "idle" => drawer.options = <<sEmpty>>
    /\ tab # null => tab.rows = <<>>
\* a one-row grid, loaded and idle, with its ward marker and mayoral marker
\* both empty, after one more filter change
C17_Witness ==
  /\ Len(data) = 1 /\ pc = "idle" /\ events = 1 /\ runs.clean = 1
  /\ filter = [issue |-> sEmpty, wantValue |-> sCapYes]
  /\ Len(markerGroup.layers) = 2
  /\ markerGroup.layers[1].key = <<"7">> /\ markerGroup.layers[1].list = <<>>
  /\ markerGroup.layers[2].key = sMayorKey /\ markerGroup.layers[2].list = <<>>

\* C20: after load, no applyFilters call and no detail view changes
\* survey.rows, survey.issueColumns, byWardAll or mayorAll (rows, order and
\* field values stay as constructed), and cleanSurveyFromPapa and the
\* ward/mayor aggregation have run exactly once.
C20_Loaded == pc \in {"ready", "drawer", "idle"}
C20_ReadOnlyAfterLoad ==
  /\ [][C20_Loaded => /\ survey' = survey
                      /\ byWardAll' = byWardAll
                      /\ mayorAll' = mayorAll
                      /\ runs' = runs]_vars
  /\ [](C20_Loaded => runs = [clean |-> 1, aggregate |-> 1])
\* two filter changes on a loaded survey with a ward row and a mayoral row,
\* the second one filtering a row out, and the data as constructed
C20_Witness ==
  /\ pc = "idle" /\ events = 2
  /\ filter = [issue |-> sQ1, wantValue |-> sCapNo]
  /\ Len(survey.rows) = 2
  /\ byWardAll.list = (<<"7">> :> <<0>>) /\ mayorAll = <<1>>
  /\ currentFilteredByWard.list = (<<"7">> :> <<>>)
  /\ Get(survey.rows[1], sQ1) = sCapYes

(***************************************************************************)
(* Ward features of every shape: ward_num a number, zero, a zero-padded     *)
(* string or missing; a label with a padded number, without a number, or    *)
(* missing; WARD present or not; and every outcome of the three centroid    *)
(* methods.  The survey has one candidate in ward 7.                        *)
(***************************************************************************)
MaxFeatures == 1
GeoProps ==
  {[noProperties EXCEPT !.ward_num = n, !.label = l, !.WARD = w] :
     n \in {undefined, Num(7), Num(0), Str(s07)},
     l \in {undefined, Str(sWard07), Str(sAtLarge)},
     w \in {undefined, Str(s7)}}
CenterOutcomes == {"throws", "nonfinite", "finite"}
GeoFeatures ==
  {Feature(p, "finite", "finite", "finite") : p \in GeoProps}
  \cup {Feature([noProperties EXCEPT !.ward_num = Num(7)], a, b, c) :
          a \in CenterOutcomes, b \in CenterOutcomes, c \in {"throws", "finite"}}
GridsGeo == ShortGrids \cup
  {<<<<sAnchor, sEmpty, sNameEmail, sQ1, sEmpty>>,
     <<sWard7, sMayorCap, sFirst, sCapYes, sCapNo>>,
     <<sX, sEmpty, sJane, sX, sEmpty>>>>}
InitGeo == InitPage(GridsGeo, {"voter_guide"}, SeqsUpTo(GeoFeatures, MaxFeatures))
SpecGeo == InitGeo /\ [][NextPage]_vars

\* C14: a ward feature on which centre of mass, centroid and bounding-box
\* centre all fail is still pushed to wardCenters, with a non-finite
\* coordinate; applyFilters places no marker for it; the survey rows of its
\* ward key stay in byWardAll and in every filtered result.
C14_Unresolvable(f) ==
  f.centerOfMass # "finite" /\ f.centroid # "finite" /\ f.bounds # "finite"
C14_Centered == pc \in {"aggregate", "ready", "drawer", "idle"}
C14_Filtered == pc \in {"drawer", "idle"}
C14_RowsKept ==
  /\ \A k \in DOMAIN byWardAll.list :
       \A p \in 1..Len(byWardAll.list[k]) : byWardAll.list[k][p] \in 0..(Len(survey.rows) - 1)
  /\ C14_Filtered =>
       /\ currentFilteredByWard.keys = byWardAll.keys
       /\ filter.issue = <<>> => currentFilteredByWard.list = byWardAll.list
C14_UnresolvableCentroid ==
  C14_Centered =>
    /\ Len(wardCenters) = Len(features)
    /\ \A i \in 1..Len(features) :
         C14_Unresolvable(features[i]) => ~wardCenters[i].at.finite
    /\ C14_Filtered =>
         Len(markerGroup.layers) =
           1 + Cardinality({i \in 1..Len(features) : ~C14_Unresolvable(features[i])})
    /\ C14_RowsKept
\* the same for features on which a failing method gave a non-finite pair
C14_NonFinitePairs ==
  (\A i \in 1..Len(features) :
      C14_Unresolvable(features[i]) =>
         "nonfinite" \in {features[i].centerOfMass, features[i].centroid})
  => C14_UnresolvableCentroid

\* C15: the key of a feature is its ward_num as an integer string when the
\* property is present, else the first digit run found trying label, WARD,
\* Ward, name, id in that order; wardCenters and wardKeyFromFeature give the
\* same key, and it is the survey-side key of the same ward number.
C15_Candidates(p) == <<p.label, p.WARD, p.Ward, p.name, p.id>>
C15_Key(p) ==
  IF p.ward_num # undefined THEN C6_DropZeros(C6_DigitRun(p.ward_num.s))
  ELSE LET runs_ == SelectSeq(C15_Candidates(p), LAMBDA v : C6_DigitRun(v.s) # <<>>)
       IN IF runs_ = <<>> THEN <<>> ELSE C6_DigitRun(runs_[1].s)
C15_GeometryWardKey ==
  C14_Centered =>
    \A i \in 1..Len(features) :
       /\ wardCenters[i].key = C15_Key(features[i].properties)
       /\ wardCenters[i].key = wardKeyFromFeature(features[i])
       /\ wardCenters[i].key = C6_DropZeros(wardCenters[i].key)
\* the part that holds: both places compute the same key
C15_SameKey ==
  C14_Centered =>
    \A i \in 1..Len(features) : wardCenters[i].key = wardKeyFromFeature(features[i])

(***************************************************************************)
(* Display names: a ward block, a name column whose second-row labels may  *)
(* or may not say first / last name, and one candidate whose name cells    *)
(* are put together from names, blanks, a bracketed and a bare address.    *)
(***************************************************************************)
MaxNameParts == 3
sJaneDoe == <<"J","a","n","e"," ","D","o","e">>
sDoe == <<"D","o","e">>
sMail == <<"j","a","n","e","@","x",".","c","o","m">>
sTagMail == <<"<">> \o sMail \o <<">">>
NameParts == {sJaneDoe, sDoe, sSp, sMail, sTagMail}
RECURSIVE Concat(_)
Concat(ps) == IF ps = <<>> THEN <<>> ELSE Head(ps) \o Concat(Tail(ps))
NameTexts == {Concat(ps) : ps \in SeqsUpTo(NameParts, MaxNameParts)}
GridsName == ShortGrids \cup
  {<<<<sAnchor, sEmpty, sNameEmail, sUnnamed2, sQ1>>,
     <<sWard7, sWard7, n1, n2, sCapYes>>,
     <<sX, sX, c1, c2, sX>>>> :
     n1 \in {sEmpty, sFirst}, n2 \in {sEmpty, sLast},
     c1 \in NameTexts, c2 \in {sEmpty, sDoe}}
InitName == InitWith(GridsName, {"voter_guide", "part_001"})
\* the marker loop of applyFilters with no filter set, run on the aggregated
\* lists: one marker per ward centre, its popup listing buildName of each row
bindPopups ==
  /\ pc = "ready"
  /\ markerGroup' = [layers |-> wardMarkers(byWardAll)]
  /\ pc' = "popups"
  /\ UNCHANGED <<variant, data, cleanVars, r, rows, rowSrc, survey, ai,
                 byWardAll, mayorAll, wardCenters, runs, features, previous,
                 sheet, info, error, map, polygonLayer, issueSel, drawer,
                 currentFilteredByWard, filter, frames, fills, tab, events>>
NextName == Next \/ bindPopups
SpecName == InitName /\ [][NextName]_vars

\* the positions of s between a "<" and the next ">", both included, and the
\* white space in front of such a "<"
C16_InTag(s, i) ==
  /\ \E a \in 1..i : s[a] = "<" /\ \A j \in a..(i - 1) : s[j] # ">"
  /\ \E b \in i..Len(s) : s[b] = ">"
C16_TagPart(s) ==
  {i \in 1..Len(s) :
     \/ C16_InTag(s, i)
     \/ \E a \in (i + 1)..Len(s) :
          C16_InTag(s, a) /\ \A j \in i..(a - 1) : IsSpace(s[j])}
\* s without the positions in drop
RECURSIVE C16_Without(_, _, _)
C16_Without(s, drop, i) ==
  IF i > Len(s) THEN <<>>
  ELSE (IF i \in drop THEN <<>> ELSE <<s[i]>>) \o C16_Without(s, drop, i + 1)
\* the positions of the blank-delimited tokens of s that look like an e-mail
\* address: something, "@", something, ".", something
C16_EmailPart(s) ==
  {i \in 1..Len(s) :
     \E a \in 1..i, b \in i..Len(s) :
        /\ \A j \in a..b : ~IsSpace(s[j])
        /\ a = 1 \/ IsSpace(s[a - 1])
        /\ b = Len(s) \/ IsSpace(s[b + 1])
        /\ \E p \in (a + 1)..(b - 1), d \in (a + 3)..(b - 1) :
             s[p] = "@" /\ s[d] = "." /\ d >= p + 2}
\* s with every run of white space turned into one blank, none at the ends
C16_Squeezed(s) ==
  LET drop == {i \in 1..Len(s) :
                 /\ IsSpace(s[i])
                 /\ \/ \A j \in 1..i : IsSpace(s[j])
                    \/ \A j \in i..Len(s) : IsSpace(s[j])
                    \/ IsSpace(s[i - 1])}
      kept == C16_Without(s, drop, 1)
  IN [i \in 1..Len(kept) |-> IF IsSpace(kept[i]) THEN " " ELSE kept[i]]
C16_Cleaned(s) ==
  LET tagless == C16_Without(s, C16_TagPart(s), 1)
  IN C16_Squeezed(C16_Without(tagless, C16_EmailPart(tagless), 1))
C16_Name(row) ==
  LET both == C16_Squeezed(Get(row, fFirstName) \o <<" ">> \o Get(row, fLastName))
  IN IF both # <<>> THEN both
     ELSE IF C16_Cleaned(Get(row, fNameMixed)) # <<>>
          THEN C16_Cleaned(Get(row, fNameMixed))
          ELSE sNamePlaceholder
C16_Shown ==
  {<<l, j>> \in (1..Len(markerGroup.layers)) \X (1..Len(survey.rows)) :
     j <= Len(markerGroup.layers[l].list)}
\* C16: every name a popup shows is the row's first and last name joined by
\* a blank, white space collapsed and trimmed, when that is not empty;
\* otherwise the row's __NameMixed without its angle-bracket tags and its
\* e-mail-shaped tokens, white space collapsed, when that is not empty;
\* otherwise "(name)"; it is never empty, and "Jane Doe <jane@x.com>" with no
\* first or last name shows as "Jane Doe".
C16_NameChain ==
  pc = "popups" =>
    /\ \A k \in 0..(Len(survey.rows) - 1) :
         \E l \in 1..Len(markerGroup.layers) :
            k \in {markerGroup.layers[l].list[j] :
                     j \in 1..Len(markerGroup.layers[l].list)}
    /\ \A lj \in C16_Shown :
         LET layer == markerGroup.layers[lj[1]]
             row == survey.rows[layer.list[lj[2]] + 1]
         IN /\ layer.items[lj[2]] = C16_Name(row)
            /\ layer.items[lj[2]] # <<>>
            /\ (Get(row, fFirstName) = <<>> /\ Get(row, fLastName) = <<>>
                /\ Get(row, fNameMixed) = sJaneDoe \o sSp \o sTagMail)
               => layer.items[lj[2]] = sJaneDoe
\* a popup shows "Jane Doe" for a row without first and last name whose mixed
\* name is "Jane Doe <jane@x.com>"
C16_Witness ==
  /\ pc = "popups" /\ Len(markerGroup.layers) = 1
  /\ Len(survey.rows) = 1
  /\ Get(survey.rows[1], fFirstName) = <<>> /\ Get(survey.rows[1], fLastName) = <<>>
  /\ Get(survey.rows[1], fNameMixed) = sJaneDoe \o sSp \o sTagMail
  /\ markerGroup.layers[1].items = <<sJaneDoe>>

(***************************************************************************)
(* One question over three columns labelled yes or as a comment column in  *)
(* every arrangement, next to a yes-only question; the data rows fill the  *)
(* three cells with nothing, a blank, a mark or a padded text.             *)
(***************************************************************************)
MaxCommentRows == 1
sOpenEnded == <<"O","p","e","n","-","E","n","d","e","d"," ","R","e","s","p","o","n","s","e",":">>
CommentLabels == {sYES, sComments, sOpenEnded}
CommentCells == {sEmpty, sSp, sX, sQ1Pad}
CommentRows == {<<c[1], c[2], c[3], sX>> : c \in SeqsOf(CommentCells, 3)}
GridsComment == ShortGrids \cup
  {<<<<sQ1, sEmpty, sUnnamed2, sQ2>>, <<l[1], l[2], l[3], sCapYes>>>> \o rs :
     l \in SeqsOf(CommentLabels, 3), rs \in SeqsUpTo(CommentRows, MaxCommentRows)}
InitComment == InitWith(GridsComment, {"voter_guide"})
SpecComment == InitComment /\ [][Next]_vars

\* the columns of group g whose second-row label is a comment label
C18_CommentCols(g) ==
  {i \in 0..(Len(header0) - 1) :
     /\ \E p \in 1..Len(groups.idx[g]) : groups.idx[g][p] = i
     /\ lc(trim(Cell(header1, i))) \in
          {tAdditionalComments, tAdditionalCommentsColon, tOpenEnded, tOpenEndedColon}}
C18_Filled(arr, g) == {i \in C18_CommentCols(g) : trim(Cell(arr, i)) # <<>>}
C18_Comment(arr, g) ==
  IF C18_Filled(arr, g) = {} THEN <<>>
  ELSE trim(Cell(arr, CHOOSE i \in C18_Filled(arr, g) : \A k \in C18_Filled(arr, g) : i <= k))
\* C18: in choice mode every retained row has, for every group, the field
\* "__COMMENT::" + group, holding the trimmed text of the leftmost non-empty
\* cell among the group's comment-labelled columns, or "" if there is none;
\* any row with the same comment cells gets the same comment, whatever its
\* answer cells hold (compared when the cleaning has returned).
C18_CommentIndependent ==
  (Headed /\ header1IsChoices) =>
    \A j \in 1..Len(rows) : \A g \in DOMAIN groups.idx :
       LET arr == data[rowSrc[j] + 1]
       IN /\ Has(rows[j], commentField(g))
          /\ rows[j][commentField(g)] = C18_Comment(arr, g)
          /\ pc = "centers" =>
               \A other \in CommentRows :
                  (\A i \in C18_CommentCols(g) : Cell(other, i) = Cell(arr, i))
                    => Get(rowObject(other), commentField(g)) = rows[j][commentField(g)]
\* the yes cell is blank, the first comment cell is blank too, and the
\* comment is the padded text of the second comment cell, trimmed; the yes-only
\* question has an empty comment
C18_Witness ==
  /\ pc = "aggregate" /\ header1IsChoices
  /\ header1 = <<sYES, sComments, sOpenEnded, sCapYes>>
  /\ data[3] = <<sEmpty, sSp, sQ1Pad, sX>>
  /\ Len(rows) = 1
  /\ Get(rows[1], sQ1) = <<>>
  /\ Get(rows[1], commentField(sQ1)) = sQ1
  /\ Get(rows[1], commentField(sQ2)) = <<>>

(***************************************************************************)
(* A two-column and a one-column free-text question; every row, the second *)
(* row of the grid included, holds blanks, "YES " or a padded text.        *)
(***************************************************************************)
MaxPlainRows == 2
PlainCells == {sSp, sYES, sQ1Pad}
GridsPlain == ShortGrids \cup
  {<<<<sQ1, sEmpty, sQ2>>>> \o rs :
     rs \in SeqsUpTo(SeqsOf(PlainCells, 3), MaxPlainRows)}
InitPlain == InitWith(GridsPlain, {"voter_guide", "part_002"})
SpecPlain == InitPlain /\ [][Next]_vars

C19_Filled(arr, g) ==
  {p \in 1..Len(groups.idx[g]) : trim(Cell(arr, groups.idx[g][p])) # <<>>}
C19_Chosen(arr, g) ==
  IF C19_Filled(arr, g) = {} THEN <<>>
  ELSE trim(Cell(arr, groups.idx[g][CHOOSE p \in C19_Filled(arr, g) :
                                      \A q \in C19_Filled(arr, g) : p <= q]))
\* C19: when the second row is not a choice row, every retained row holds for
\* every group the trimmed text of the leftmost non-empty cell among the
\* group's columns, as written (no Yes / No / Undecided mapping), or "" if
\* all are empty; its only fields are the groups, and the result names no
\* comment field.
C19_PlainFallback ==
  (Headed /\ ~header1IsChoices) =>
    /\ \A j \in 1..Len(rows) :
         /\ DOMAIN rows[j] = DOMAIN groups.idx
         /\ \A g \in DOMAIN groups.idx :
              rows[j][g] = C19_Chosen(data[rowSrc[j] + 1], g)
    /\ pc \in {"aggregate", "ready"} => survey.commentForIssue = EmptyObj
\* the second question's group is empty in no row; the first question's first
\* cell is blank in the last row, whose "YES " cell is kept as "YES"
C19_Witness ==
  /\ pc = "aggregate" /\ ~header1IsChoices /\ Len(data) = 3
  /\ data[2] = <<sQ1Pad, sYES, sQ1Pad>>
  /\ data[3] = <<sSp, sYES, sSp>>
  /\ Len(rows) = 2
  /\ rows[1][sQ1] = sQ1
  /\ rows[2][sQ1] = <<"Y","E","S">> /\ rows[2][sQ2] = <<>>

(***************************************************************************)
(* The page loaded twice on the same grid: the handler runs again from its *)
(* first line, with fresh local variables, and the first result is kept    *)
(* for comparison.                                                         *)
(***************************************************************************)
MaxLoads == 2
freshLoad ==
  /\ header1IsChoices' = FALSE
  /\ wardSlice' = null
  /\ groups' = [keys |-> <<>>, idx |-> EmptyObj]
  /\ choiceIndexByGroup' = EmptyObj
  /\ firstIdx' = -1 /\ lastIdx' = -1 /\ nameMixedCol' = -1
  /\ r' = 0 /\ rows' = <<>> /\ rowSrc' = <<>>
  /\ survey' = emptySurvey
  /\ ai' = 0
  /\ wardCenters' = <<>>
\* variant: the lists of the first load are still there when the second starts
Reload_keepLists ==
  /\ pc = "ready" /\ runs.clean < MaxLoads
  /\ previous' = [rows |-> survey.rows, issueColumns |-> survey.issueColumns,
                  byWardAll |-> byWardAll, mayorAll |-> mayorAll]
  /\ freshLoad
  /\ pc' = "clean"
  /\ UNCHANGED <<variant, data, byWardAll, mayorAll, runs, features, error,
                 map, polygonLayer, markerGroup, issueSel, drawer,
                 currentFilteredByWard, filter, frames, fills, tab, events,
                 sheet, info>>
\* the DOMContentLoaded handler runs again on the same survey.csv: lines 47-152
\* start from the grid alone, line 190 makes a new Map and a new array
Reload ==
  /\ pc = "ready" /\ runs.clean < MaxLoads
  /\ previous' = [rows |-> survey.rows, issueColumns |-> survey.issueColumns,
                  byWardAll |-> byWardAll, mayorAll |-> mayorAll]
  /\ freshLoad
  /\ byWardAll' = emptyMap
  /\ mayorAll' = <<>>
  /\ pc' = "clean"
  /\ UNCHANGED <<variant, data, runs, features, error, map, polygonLayer,
                 markerGroup, issueSel, drawer, currentFilteredByWard,
                 filter, frames, fills, tab, events, sheet, info>>
NextTwice == Next \/ Reload
InitTwice == InitWith(GridsWard \cup GridsKeys, {"voter_guide"})
SpecTwice == InitTwice /\ [][NextTwice]_vars

MaxSheetRows == 1
s14 == <<"1","4">>
SheetWardLabels == {sWard14, sWard7, sMayorCap}
SheetAnswerLabels ==
  {l \in SeqsOf({sCapYes, sCapNo, sCapUndecided}, 3) : \A i, j \in 1..3 : l[i] = l[j] => i = j}
SheetMarks == {<<sEmpty, sEmpty, sEmpty>>, <<sX, sEmpty, sEmpty>>,
               <<sEmpty, sX, sEmpty>>, <<sEmpty, sEmpty, sX>>}
SheetRows ==
  {<<w[1], w[2], sJane, sDoe>> \o a : w \in SeqsOf({sEmpty, sX}, 2), a \in SheetMarks}
GridsSheet == ShortGrids \cup
  {<<<<sAnchor, sEmpty, sNameEmail, sEmpty, sQ1, sEmpty, sEmpty>>,
     w \o <<sFirst, sLast>> \o a>> \o rs :
     w \in SeqsOf(SheetWardLabels, 2), a \in SheetAnswerLabels,
     rs \in SeqsUpTo(SheetRows, MaxSheetRows)}
InitSheet == InitWith(GridsSheet, {"voter_guide"})
SpecSheet == InitSheet /\ [][Next]_vars

\* the ward-slice / answer columns in which the grid row arr has a mark
C22_WardMarks(arr) ==
  {c \in 0..(Len(header0) - 1) :
     /\ wardSlice # null /\ c >= wardSlice.start /\ c < wardSlice.end
     /\ trim(Cell(arr, c)) # <<>>}
C22_AnswerMarks(arr) ==
  {c \in 0..(Len(header0) - 1) :
     /\ lc(trim(Cell(header1, c))) \in {tYes, tNo, tUndecided}
     /\ trim(Cell(arr, c)) # <<>>}
\* grid row src marks one ward column, labelled "Ward 14", and one answer column
C22_Case(src) ==
  /\ Cardinality(C22_WardMarks(data[src + 1])) = 1
  /\ \A c \in C22_WardMarks(data[src + 1]) : Cell(header1, c) = sWard14
  /\ Cardinality(C22_AnswerMarks(data[src + 1])) = 1
\* C22: a data row that marks exactly one ward column, labelled "Ward 14",
\* and exactly one answer column gives exactly one normalized row; its answer
\* is the label of the marked column, the question is an issue column, and
\* the row is in the list of ward key "14", once, in no other ward's list and
\* not in the mayoral list.
C22_EndToEnd ==
  (Headed /\ header1IsChoices) =>
    \A src \in Processed :
       C22_Case(src) =>
         /\ Cardinality(RetainedFrom(src)) = 1
         /\ \A j \in RetainedFrom(src) :
              /\ \A c \in C22_AnswerMarks(data[src + 1]) :
                   rows[j][sQ1] = trim(Cell(header1, c))
              /\ pc \in {"centers", "aggregate", "ready"} =>
                   \E i \in 1..Len(survey.issueColumns) : survey.issueColumns[i] = sQ1
              /\ (j - 1) \in Aggregated =>
                   /\ Has(byWardAll.list, s14)
                   /\ WardPlaces(j - 1) = {<<s14, First(Places(byWardAll.list[s14], j - 1))>>}
                   /\ Cardinality(Places(byWardAll.list[s14], j - 1)) = 1
                   /\ Places(mayorAll, j - 1) = {}
\* the row marks the second ward column, labelled "Ward 14", next to a
\* mayoral column, and the no column; it ends under ward key "14" with "No"
C22_Witness ==
  /\ pc = "ready" /\ header1IsChoices /\ Len(data) = 3
  /\ header1 = <<sMayorCap, sWard14, sFirst, sLast, sCapUndecided, sCapNo, sCapYes>>
  /\ data[3] = <<sEmpty, sX, sJane, sDoe, sEmpty, sX, sEmpty>>
  /\ Len(survey.rows) = 1 /\ survey.rows[1][sQ1] = sCapNo
  /\ byWardAll.keys = <<s14>> /\ byWardAll.list[s14] = <<0>> /\ mayorAll = <<>>
  /\ survey.issueColumns = <<sQ1>>


MaxIssueRows == 2
IssueLabels == {sCapYes, sComments, sEmail, sEmpty}
IssueRows == SeqsOf({sEmpty, sX}, 4)
GridsIssue == ShortGrids \cup
  {<<<<sQ1, sEmpty, sNameEmail, sQ2>>, <<l[1], l[2], sFirst, sCapUndecided>>>> \o rs :
     l \in SeqsOf(IssueLabels, 2), rs \in SeqsUpTo(IssueRows, MaxIssueRows)}
InitIssue == InitWith(GridsIssue, {"voter_guide"})
SpecIssue == InitIssue /\ [][Next]_vars

C30_IsIssue(g) == \E i \in 1..Len(survey.issueColumns) : survey.issueColumns[i] = g
C30_Answered(g) == \E j \in 1..Len(survey.rows) : Get(survey.rows[j], g) # <<>>
C30_HasAnswerColumn(g) ==
  \E p \in 1..Len(groups.idx[g]) :
     lc(trim(Cell(header1, groups.idx[g][p]))) \in {tYes, tNo, tUndecided}
\* C30: in choice mode a group is an issue column exactly when some retained
\* row has a non-empty answer for it, every non-empty answer being "Yes",
\* "No" or "Undecided"; a group without a yes, no or undecided column is
\* never an issue column, whatever its cells hold.
C30_ChoiceIssues ==
  (Returned /\ header1IsChoices) =>
    \A g \in DOMAIN groups.idx :
       /\ C30_IsIssue(g) <=> C30_Answered(g)
       /\ \A j \in 1..Len(survey.rows) :
            Get(survey.rows[j], g) \in {<<>>, sCapYes, sCapNo, sCapUndecided}
       /\ ~C30_HasAnswerColumn(g) => ~C30_IsIssue(g)
\* the first question has a comment and an unlabelled column, both filled in
\* the only row, and is no issue column; the second, answered, is the only one
C30_Witness ==
  /\ pc = "aggregate" /\ header1IsChoices /\ Len(data) = 3
  /\ header1 = <<sComments, sEmpty, sFirst, sCapUndecided>>
  /\ data[3] = <<sX, sX, sX, sX>>
  /\ Len(survey.rows) = 1
  /\ survey.issueColumns = <<sQ2>>


(***************************************************************************)
(* A free-text sheet on the page: the second row is the first candidate,   *)
(* of ward 7, answering "maybe"; three more candidates, of ward 7 or for   *)
(* mayor, answer "YES " or "Undecided", which makes the first question an  *)
(* issue column with one answer that is none of yes, no, undecided.        *)
(***************************************************************************)
MaxFilterRows == 3
FilterRows ==
  {<<sEmpty, w, sJane, a, sMaybe>> : w \in {sWard7, sMayorCap}, a \in {sYES, sCapUndecided}}
GridsFilter == ShortGrids \cup
  {<<<<sAnchor, sEmpty, sNameEmail, sQ1, sQ2>>,
     <<sEmpty, sWard7, sJane, sMaybe, sMaybe>>>> \o rs :
     rs \in SeqsOf(FilterRows, MaxFilterRows)}
InitFilter == InitPage(GridsFilter, {"voter_guide"}, {DefaultFeatures})
SpecFilter == InitFilter /\ [][NextPage]_vars

\* the answer of the row with index ref to the filter's issue, in lower case
\* if it is yes, no or undecided, and "" otherwise
C23_Answer(ref) ==
  LET t == lc(trim(Get(survey.rows[ref + 1], filter.issue)))
  IN IF t \in {tYes, tNo, tUndecided} THEN t ELSE <<>>
C23_Wanted(ref) ==
  IF filter.issue = <<>> THEN TRUE
  ELSE IF filter.wantValue = <<>> THEN C23_Answer(ref) # <<>>
  ELSE C23_Answer(ref) = lc(filter.wantValue)
\* list b holds exactly the wanted rows of list a, in the order of a
C23_Filtered(a, b) ==
  /\ \A p \in 1..Len(b) : \E q \in 1..Len(a) : a[q] = b[p] /\ C23_Wanted(b[p])
  /\ \A q \in 1..Len(a) : C23_Wanted(a[q]) => \E p \in 1..Len(b) : b[p] = a[q]
  /\ \A p1, p2 \in 1..Len(b) :
       p1 < p2 => \E q1, q2 \in 1..Len(a) : q1 < q2 /\ a[q1] = b[p1] /\ a[q2] = b[p2]
  /\ Len(b) <= Len(a)
C23_MayorPopup ==
  {markerGroup.layers[i].list : i \in {i \in 1..Len(markerGroup.layers) :
                                         markerGroup.layers[i].key = sMayorKey}}
\* C23: after applyFilters(issue, wantValue) the filtered map has the keys of
\* byWardAll, and each of its lists, like the mayoral list shown, holds in
\* their order exactly the rows of the full list that are wanted: all of them
\* when issue is empty, those answering yes, no or undecided when only issue
\* is set, those whose answer is wantValue in lower case when both are set.
C23_FilterSemantics ==
  filter # null =>
    /\ currentFilteredByWard.keys = byWardAll.keys
    /\ DOMAIN currentFilteredByWard.list = DOMAIN byWardAll.list
    /\ \A k \in DOMAIN byWardAll.list :
         C23_Filtered(byWardAll.list[k], currentFilteredByWard.list[k])
    /\ \A l \in C23_MayorPopup : C23_Filtered(mayorAll, l)
    /\ C23_MayorPopup # {}
\* three candidates of ward 7 answering maybe, yes, undecided, in that order:
\* with only the issue set the first is filtered out and the order is kept
C23_Witness ==
  /\ pc = "idle" /\ filter = [issue |-> sQ1, wantValue |-> sEmpty]
  /\ byWardAll.list[s7] = <<0, 1, 2>> /\ mayorAll = <<3>>
  /\ Get(survey.rows[2], sQ1) = <<"Y","E","S">>
  /\ Get(survey.rows[3], sQ1) = sCapUndecided
  /\ currentFilteredByWard.list[s7] = <<1, 2>>


(***************************************************************************)
(* The free-text sheet on both pages that show a City Hall marker, with    *)
(* ward features whose centre is found or is not a finite pair.            *)
(***************************************************************************)
MarkerFeatures ==
  {<<Feature([noProperties EXCEPT !.ward_num = Num(7)], o, "finite", "finite")>> :
     o \in {"finite", "nonfinite"}}
InitMarkers == InitPage(GridsFilter, {"voter_guide", "part_000"}, MarkerFeatures)
SpecMarkers == InitMarkers /\ [][NextEither]_vars

C25_WardLayers ==
  {i \in 1..Len(markerGroup.layers) : markerGroup.layers[i].key # sMayorKey}
C25_MayorLayers ==
  {i \in 1..Len(markerGroup.layers) : markerGroup.layers[i].key = sMayorKey}
C25_FiniteCenters == {c \in 1..Len(wardCenters) : wardCenters[c].at.finite}
C25_Matches(ref) ==
  IF filter.issue = <<>> THEN TRUE
  ELSE LET t == lc(trim(Get(survey.rows[ref + 1], filter.issue)))
       IN IF filter.wantValue = <<>> THEN t \in {tYes, tNo, tUndecided}
          ELSE t \in {tYes, tNo, tUndecided} /\ t = lc(filter.wantValue)
C26_Count(i, a) ==
  LET key == wardKeyFromFeature(features[polygonLayer.data[i]])
      list == IF key \in DOMAIN currentFilteredByWard.list
              THEN currentFilteredByWard.list[key] ELSE <<>>
  IN IF filter.issue = <<>> THEN 0
     ELSE Cardinality({p \in 1..Len(list) :
            lc(trim(Get(survey.rows[list[p] + 1], filter.issue))) = a})
\* C26: whenever applyFilters has been called and no animation-frame callback
\* is pending, every ward polygon is painted with the stripe segments of the
\* most recently applied issue and wanted value: the yes, no and undecided
\* counts of currentFilteredByWard, which the markers list too.
C26_FillConverges ==
  (filter # null /\ frames = <<>>) =>
    \A i \in 1..Len(polygonLayer.data) :
       /\ fills[i] = [painted |-> TRUE, yes |-> C26_Count(i, tYes),
                      no |-> C26_Count(i, tNo), undecided |-> C26_Count(i, tUndecided)]
       /\ \A l \in 1..Len(markerGroup.layers) :
            markerGroup.layers[l].key = wardKeyFromFeature(features[polygonLayer.data[i]])
              => markerGroup.layers[l].list = mapGet(currentFilteredByWard, markerGroup.layers[l].key)
\* after the initial call and two filter changes every queued callback has
\* run, and the polygon shows the undecided answers only
C26_Witness ==
  /\ pc = "idle" /\ events = 2 /\ frames = <<>>
  /\ filter = [issue |-> sQ1, wantValue |-> sCapUndecided]
  /\ Len(byWardAll.list[s7]) = 3
  /\ fills[1] = [painted |-> TRUE, yes |-> 0, no |-> 0, undecided |-> 1]


\* the popups whose button opens the detail view now shown
C29_Popups ==
  {i \in 1..Len(markerGroup.layers) : markerGroup.layers[i].name = tab'.name}
\* C29: whenever a detail view is opened from a popup, it renders the rows
\* that popup lists under the filter applied last, for a ward and for the
\* mayoral candidates alike.
C29_DetailMatchesPopup ==
  [][openWardInNewTab =>
       /\ C29_Popups # {}
       /\ \A i \in C29_Popups : tab'.rows = markerGroup.layers[i].list]_vars
\* the part that holds: the detail view of a ward renders the rows of its
\* popup; the mayoral view renders every mayoral row, the filter left aside
C29_WardDetail ==
  [][openWardInNewTab =>
       /\ C29_Popups # {}
       /\ \A i \in C29_Popups :
            tab'.rows = IF markerGroup.layers[i].key = sMayorKey THEN mayorAll
                        ELSE markerGroup.layers[i].list]_vars


(***************************************************************************)
(* The drawer of part_000 on the loaded page: popup buttons, clicks on the *)
(* overlay or the close button, the queued slide-in callbacks, and, in the *)
(* second family, window resizes to either side of the breakpoint.         *)
(***************************************************************************)
InitRace == InitPage(GridsFilter, {"part_000"}, {DefaultFeatures})
SpecRace == InitRace /\ [][NextSheet]_vars
SpecResize == InitRace /\ [][NextResize]_vars

\* C27: whenever no slide-in callback is pending, the drawer is on-screen if
\* and only if the last call was openWardDrawer; after a close it is
\* off-screen, the overlay hidden and scrolling unlocked.
C27_DrawerFollowsLastCall ==
  (sheet # null /\ sheet.pending = 0) =>
    /\ sheet.slid <=> sheet.last = "open"
    /\ sheet.last = "close" => ~sheet.slid /\ ~sheet.overlay /\ ~sheet.locked
\* the part that holds: closeWardDrawer itself hides everything at once, and
\* an open drawer whose callbacks have run is on-screen
C27_CloseHides ==
  /\ [][closeWardDrawer =>
          ~sheet'.slid /\ ~sheet'.overlay /\ ~sheet'.locked]_vars
  /\ []((sheet # null /\ sheet.pending = 0 /\ sheet.last = "open") => sheet.slid)

\* C28: the overlay is shown and scrolling locked exactly when the drawer is
\* slid in, and a resize event changes the layout mode only: it leaves the
\* drawer, the overlay and the scroll lock as they were.
C28_ResizeKeepsDrawer ==
  /\ []((sheet # null /\ sheet.pending = 0) =>
          /\ sheet.overlay <=> sheet.slid
          /\ sheet.locked <=> sheet.slid)
  /\ [][resize => /\ sheet'.slid = sheet.slid
                  /\ sheet'.overlay = sheet.overlay
                  /\ sheet'.locked = sheet.locked]_vars
\* the part that holds: a resize sets the layout of the new mode and leaves
\* the overlay and the scroll lock alone, which always go together
C28_ResizeLayout ==
  /\ [][resize => /\ sheet'.layout = (IF sheet'.mobile THEN "bottom" ELSE "side")
                  /\ sheet'.overlay = sheet.overlay
                  /\ sheet'.locked = sheet.locked
                  /\ sheet'.rendered = sheet.rendered]_vars
  /\ [](sheet # null => (sheet.overlay <=> sheet.locked))

=============================================================================
